---------------------------- MODULE Spec2Model ----------------------------
(***************************************************************************)
(* Frame image viewer: the editor (EditorView) and its edit session.       *)
(*                                                                         *)
(* The model follows gui.EditorView field by field.  Pointers are          *)
(* sequences of length at most one (<<>> is nil, <<v>> points to v).       *)
(* A pixbuf is the rectangle of the loaded image whose pixels it holds, so *)
(* two buffers are equal exactly when they hold the same pixels of the     *)
(* same image.  Pointer coordinates are float64 in the source; the model   *)
(* draws them from small sets of integers, on which the arithmetic of the  *)
(* hit test is exact.  The crop mapping is computed over the rationals.    *)
(***************************************************************************)
EXTENDS Integers, Sequences, FiniteSets, TLC

VARIABLES
    isEditMode,     \* Window.isEditMode: the editor is the visible child
    currentTool,    \* EditorView.currentTool
    brushSize,      \* EditorView.brushSize
    brushColor,     \* EditorView.brushColor
    isDrawing,      \* EditorView.isDrawing
    currentPath,    \* EditorView.currentPath
    originalBuf,    \* EditorView.originalBuf   (pointer to a pixbuf)
    preCropBuf,     \* EditorView.preCropBuf    (pointer to a pixbuf)
    postCropBuf,    \* EditorView.postCropBuf   (pointer to a pixbuf)
    session,        \* EditorView.session       (pointer to an EditSession)
    currentStroke,  \* EditorView.currentStroke (pointer to a Stroke)
    undoStack,      \* EditorView.undoStack
    redoStack,      \* EditorView.redoStack
    cropStart,      \* EditorView.cropStartX, cropStartY
    cropEnd,        \* EditorView.cropEndX, cropEndY
    isCropping,     \* EditorView.isCropping
    cropActive,     \* EditorView.cropActive
    drawArea,       \* allocated size of EditorView.drawArea
    cropBtn,        \* EditorView.cropBtn.Active()
    penBtn,         \* EditorView.penBtn.Active()
    disk,           \* the files of the file system, by name
    loaded,         \* the last operation on a sidecar and what it returned
    viewer,         \* the fields of the Viewer
    picture,        \* Viewer.picture: what the gtk.Picture has been set to
    zoomSteps,      \* the ZoomIn and ZoomOut calls since the zoom level was 1.0
    images,         \* App.images
    currentIndex,   \* App.currentIndex
    gSequence,      \* Window.gSequence
    isFullscreen,   \* Window.isFullscreen
    quit,           \* App.Quit has been called
    errorDialog,    \* the message of the open dialog of ShowError, "" if none
    buttonDown,     \* the click gesture has reported a press and no release yet
    hist            \* history variable: the latest run of edit operations

toolVars  == <<currentTool, brushSize, brushColor>>
penVars   == <<isDrawing, currentStroke>>
bufVars   == <<originalBuf, preCropBuf, postCropBuf>>
stackVars == <<undoStack, redoStack>>
cropVars  == <<cropStart, cropEnd, isCropping, cropActive>>
envVars   == <<isEditMode, currentPath, drawArea>>
btnVars   == <<cropBtn, penBtn>>
fileVars  == <<disk, loaded>>
viewVars  == <<viewer, picture, zoomSteps>>
appVars   == <<images, currentIndex, gSequence, isFullscreen, quit,
               errorDialog>>
winVars   == <<viewVars, appVars>>

vars == <<isEditMode, currentTool, brushSize, brushColor, isDrawing,
          currentPath, originalBuf, preCropBuf, postCropBuf, session,
          currentStroke, undoStack, redoStack, cropStart, cropEnd,
          isCropping, cropActive, drawArea, cropBtn, penBtn, disk, loaded,
          viewer, picture, zoomSteps, images, currentIndex, gSequence,
          isFullscreen, quit, errorDialog, buttonDown, hist>>

----------------------------------------------------------------------------
(* Bounds of the model. *)

\* A stroke in progress takes at most this many points.
MaxPoints == 2
\* A stroke, an eraser pass and a crop start only while the history stacks
\* hold at most this many entries.
MaxActions == 3
\* The session holds at most this many strokes.
MaxStrokes == 3
\* The history variable keeps this many operations.
HistWin == 4
\* With the keys, the zoom level is at most this many steps from 1.0.
MaxKeyZooms == 1
\* With the keys, at most this many settings of the window are away from
\* what they are when a file has been opened.
MaxAway == 1
\* ZoomIn and ZoomOut are called at most this many times between two
\* settings of the zoom level to 1.0.
MaxZoomSteps == 27

(* Inputs. *)
ImagePaths   == {<<"/", "a", "/", "b", ".", "j", "p", "g">>}
ImageSizes   == {[W |-> 8, H |-> 4]}
AreaSizes    == {[W |-> 8, H |-> 8]}
DefaultBrushSize  == 5
DefaultBrushColor == "#000000"

----------------------------------------------------------------------------
(* Data types of internal/image/session.go. *)

Nil == <<>>
Ptr(v) == <<v>>
Deref(p) == p[1]

Point(x, y) == [X |-> x, Y |-> y]

ToolNone   == "ToolNone"
ToolCrop   == "ToolCrop"
ToolPen    == "ToolPen"
ToolEraser == "ToolEraser"
Tool == {ToolNone, ToolCrop, ToolPen, ToolEraser}

\* EditAction.Data is an interface value: nil, a Stroke or a *CropRegion.
NoData          == [Kind |-> "nil"]
StrokeData(s)   == [Kind |-> "Stroke", Stroke |-> s]
CropData(c)     == [Kind |-> "*CropRegion", Crop |-> c]
EditAction(t, d) == [Type |-> t, Data |-> d]

NewEditSession(imagePath) ==
    [Version |-> "1.0", ImagePath |-> imagePath, Crop |-> Nil,
     Strokes |-> <<>>, HistoryPos |-> 0]

AddStroke(s, stroke) ==
    [s EXCEPT !.Strokes = Append(s.Strokes, stroke),
              !.HistoryPos = Len(s.Strokes) + 1]

SetCrop(s, crop) == [s EXCEPT !.Crop = crop]

ClearCrop(s) == [s EXCEPT !.Crop = Nil]

HasEdits(s) == s.Crop # Nil \/ Len(s.Strokes) > 0

\* append(a[:idx], a[idx+1:]...) with idx counted from 1
RemoveAt(a, idx) == SubSeq(a, 1, idx - 1) \o SubSeq(a, idx + 1, Len(a))

----------------------------------------------------------------------------
(* Pixbufs. *)

Pixbuf(img, x, y, w, h) == [Img |-> img, X |-> x, Y |-> y, W |-> w, H |-> h]

\* Pixbuf.Copy: a new buffer with the same pixels
Copy(b) == b

\* Pixbuf.NewSubpixbuf(x, y, w, h): nil unless the region lies in the buffer
NewSubpixbuf(b, x, y, w, h) ==
    IF x >= 0 /\ y >= 0 /\ w > 0 /\ h > 0 /\ x + w <= b.W /\ y + h <= b.H
    THEN Ptr(Pixbuf(b.Img, b.X + x, b.Y + y, w, h))
    ELSE Nil

Min(a, b) == IF a <= b THEN a ELSE b
Max(a, b) == IF a >= b THEN a ELSE b

----------------------------------------------------------------------------
(* The history variable.  It holds the latest run of edit operations of    *)
(* the shape  new actions, then undos, then at most one redo,  each with    *)
(* the session and the image buffer it started from; an operation that      *)
(* does not continue the shape starts a new run.                            *)

IsPush(op) == op \in {"stroke", "erase", "crop"}

Continues(h, op) ==
    \/ h = <<>>
    \/ IsPush(op) /\ \A i \in 1..Len(h) : IsPush(h[i].op)
    \/ op = "undo" /\ \A i \in 1..Len(h) : h[i].op # "redo"
    \/ op = "redo" /\ h[Len(h)].op = "undo"

Logged(h, entry) ==
    LET all == IF Continues(h, entry.op) THEN Append(h, entry) ELSE <<entry>>
    IN  IF Len(all) > HistWin THEN SubSeq(all, Len(all) - HistWin + 1, Len(all))
        ELSE all

----------------------------------------------------------------------------
(* The sidecar file.  A path is the sequence of its characters.  The path   *)
(* functions are those of path/filepath for a clean path: no empty, "." or  *)
(* ".." element and no separator at the end.                                *)

\* the greatest i with p[i] = c, 0 when there is none
LastIndex(p, c) ==
    LET I == {i \in 1..Len(p) : p[i] = c}
    IN  IF I = {} THEN 0 ELSE CHOOSE i \in I : \A j \in I : j <= i

\* filepath.Dir
Dir(p) ==
    LET i == LastIndex(p, "/")
    IN  IF i = 0 THEN <<".">>
        ELSE IF i = 1 THEN <<"/">>
        ELSE SubSeq(p, 1, i - 1)

\* filepath.Base
Base(p) ==
    IF p = <<>> THEN <<".">> ELSE SubSeq(p, LastIndex(p, "/") + 1, Len(p))

\* filepath.Ext: from the last dot of the last element
Ext(p) ==
    LET i == LastIndex(p, ".")
    IN  IF i = 0 \/ i < LastIndex(p, "/") THEN <<>> ELSE SubSeq(p, i, Len(p))

\* strings.TrimSuffix
TrimSuffix(s, suffix) ==
    IF Len(suffix) <= Len(s)
          /\ SubSeq(s, Len(s) - Len(suffix) + 1, Len(s)) = suffix
    THEN SubSeq(s, 1, Len(s) - Len(suffix))
    ELSE s

\* filepath.Join(dir, elem) for an element that is a file name
Join(dir, elem) ==
    IF dir = <<".">> THEN elem
    ELSE IF dir = <<"/">> THEN dir \o elem
    ELSE dir \o <<"/">> \o elem

FrameEdits == <<".", "f", "r", "a", "m", "e", "-", "e", "d", "i", "t", "s",
                ".", "j", "s", "o", "n">>

\* SessionFileName
SessionFileName(imagePath) ==
    LET dir == Dir(imagePath)
        base == Base(imagePath)
        ext == Ext(base)
        name == TrimSuffix(base, ext)
    IN  Join(dir, <<".">> \o name \o FrameEdits)

\* A JSON object is a function from its keys; NoKeys has none.
NoKeys == <<>>

\* json.Marshal of a CropRegion: ratio has omitempty
MarshalCrop(c) ==
    ("x" :> c.X) @@ ("y" :> c.Y) @@ ("width" :> c.Width)
        @@ ("height" :> c.Height)
        @@ (IF c.Ratio # "" THEN "ratio" :> c.Ratio ELSE NoKeys)

\* json.Marshal of a Stroke
MarshalStroke(s) ==
    [tool |-> s.Tool, color |-> s.Color, brush_size |-> s.BrushSize,
     points |-> [i \in 1..Len(s.Points) |->
                    [x |-> s.Points[i].X, y |-> s.Points[i].Y]]]

\* a Marshal that writes the strokes of every session, which C17 rules out
MarshalAllStrokes(s) ==
    ("version" :> s.Version) @@ ("image_path" :> s.ImagePath)
        @@ (IF s.Crop # Nil THEN "crop" :> MarshalCrop(Deref(s.Crop))
            ELSE NoKeys)
        @@ ("strokes" :> [i \in 1..Len(s.Strokes) |->
                            MarshalStroke(s.Strokes[i])])
        @@ ("history_pos" :> s.HistoryPos)

\* json.MarshalIndent of an EditSession: crop and strokes have omitempty
Marshal(s) ==
    ("version" :> s.Version) @@ ("image_path" :> s.ImagePath)
        @@ (IF s.Crop # Nil THEN "crop" :> MarshalCrop(Deref(s.Crop))
            ELSE NoKeys)
        @@ (IF Len(s.Strokes) > 0
            THEN "strokes" :> [i \in 1..Len(s.Strokes) |->
                                  MarshalStroke(s.Strokes[i])]
            ELSE NoKeys)
        @@ ("history_pos" :> s.HistoryPos)

\* the value of a key, or the zero value of the field when the key is absent
Field(doc, key, zero) == IF key \in DOMAIN doc THEN doc[key] ELSE zero

UnmarshalCrop(doc) ==
    [X |-> Field(doc, "x", 0), Y |-> Field(doc, "y", 0),
     Width |-> Field(doc, "width", 0), Height |-> Field(doc, "height", 0),
     Ratio |-> Field(doc, "ratio", "")]

UnmarshalStroke(doc) ==
    [Tool |-> Field(doc, "tool", ""), Color |-> Field(doc, "color", ""),
     BrushSize |-> Field(doc, "brush_size", 0),
     Points |-> LET pts == Field(doc, "points", <<>>)
                IN  [i \in 1..Len(pts) |->
                        Point(Field(pts[i], "x", 0), Field(pts[i], "y", 0))]]

\* json.Unmarshal into a zero EditSession, for an object whose values have
\* the types of the fields
Unmarshal(doc) ==
    [Version |-> Field(doc, "version", ""),
     ImagePath |-> Field(doc, "image_path", <<>>),
     Crop |-> IF "crop" \in DOMAIN doc THEN Ptr(UnmarshalCrop(doc["crop"]))
              ELSE Nil,
     Strokes |-> LET ss == Field(doc, "strokes", <<>>)
                 IN  [i \in 1..Len(ss) |-> UnmarshalStroke(ss[i])],
     HistoryPos |-> Field(doc, "history_pos", 0)]

\* What a file holds: a JSON object that decodes, JSON that does not decode
\* into an EditSession (a value of another type), text that is not JSON, or
\* something os.ReadFile fails on.
JsonFile(doc) == [kind |-> "json", doc |-> doc]
Mistyped   == [kind |-> "mistyped"]
Garbage    == [kind |-> "garbage"]
Unreadable == [kind |-> "unreadable"]

NoFiles == <<>>
NoCall  == [op |-> "none", path |-> <<>>, session |-> Nil, err |-> ""]

\* os.WriteFile
WriteFile(files, name, content) == (name :> content) @@ files

\* a LoadEditSession that fails when there is no sidecar, which C18 rules
\* out
LoadEditSessionNeedsFile(files, imagePath) ==
    LET sessionPath == SessionFileName(imagePath)
    IN  IF sessionPath \notin DOMAIN files \/ files[sessionPath].kind # "json"
        THEN [session |-> Nil, err |-> "read"]
        ELSE [session |-> Ptr(Unmarshal(files[sessionPath].doc)), err |-> ""]

\* LoadEditSession: the session and the error it returns
LoadEditSession(files, imagePath) ==
    LET sessionPath == SessionFileName(imagePath)
    IN  IF sessionPath \notin DOMAIN files
        THEN [session |-> Ptr(NewEditSession(imagePath)), err |-> ""]
        ELSE IF files[sessionPath].kind = "unreadable"
        THEN [session |-> Nil, err |-> "read"]
        ELSE IF files[sessionPath].kind # "json"
        THEN [session |-> Nil, err |-> "unmarshal"]
        ELSE [session |-> Ptr(Unmarshal(files[sessionPath].doc)), err |-> ""]

\* SaveEditSession: the files afterwards; ok is whether os.WriteFile succeeds
SaveEditSession(files, s, ok) ==
    IF ok THEN WriteFile(files, SessionFileName(s.ImagePath),
                         JsonFile(Marshal(s)))
    ELSE files

----------------------------------------------------------------------------
(* float64.  The zoom level is a float64 and its arithmetic rounds: a       *)
(* product or a quotient is the double nearest to the exact result, ties    *)
(* to the even mantissa.  A natural number of any size is the sequence of   *)
(* its digits to the base Limb, the least significant first and the last   *)
(* one not 0; zero is the empty sequence.  A positive double is             *)
(* [m |-> mantissa, x |-> exponent], the number m * 2^x, with a mantissa of *)
(* exactly Precision binary digits.  The zoom level stays within [0.1, 10], *)
(* far from overflow and from the subnormal numbers, so the exponent has    *)
(* no bound here.                                                           *)

\* the binary digits of the mantissa of a float64
Precision == 53
\* the binary digits of one digit of a natural number
LimbBits == 14
Limb == 2^LimbBits

\* a without its leading zero digits
RECURSIVE Trim(_)
Trim(a) ==
    IF a # <<>> /\ a[Len(a)] = 0 THEN Trim(SubSeq(a, 1, Len(a) - 1)) ELSE a

Digit(a, i) == IF i \in 1..Len(a) THEN a[i] ELSE 0

\* the digits i.. of the number whose digits, not yet carried, are c
RECURSIVE Carry(_, _, _)
Carry(c, i, carry) ==
    IF i > Len(c) THEN <<>>
    ELSE <<(c[i] + carry) % Limb>>
            \o Carry(c, i + 1, (c[i] + carry) \div Limb)

Longer(a, b) == IF Len(a) > Len(b) THEN Len(a) ELSE Len(b)

BigAdd(a, b) ==
    Trim(Carry([i \in 1..(Longer(a, b) + 1) |-> Digit(a, i) + Digit(b, i)],
               1, 0))

\* a - b for a >= b
BigSub(a, b) ==
    Trim(Carry([i \in 1..Len(a) |-> a[i] - Digit(b, i)], 1, 0))

\* a[1] * b[k] + ... + a[i] * b[k + 1 - i]
RECURSIVE Column(_, _, _, _)
Column(a, b, k, i) ==
    IF i = 0 THEN 0
    ELSE Digit(a, i) * Digit(b, k + 1 - i) + Column(a, b, k, i - 1)

BigMul(a, b) ==
    Trim(Carry([k \in 1..(Len(a) + Len(b)) |-> Column(a, b, k, k)], 1, 0))

\* a < b
BigLess(a, b) ==
    \/ Len(a) < Len(b)
    \/ /\ Len(a) = Len(b)
       /\ \E i \in 1..Len(a) :
             a[i] < b[i] /\ \A j \in (i + 1)..Len(a) : a[j] = b[j]

\* a * 2^n
ShiftLeft(a, n) ==
    LET q == n \div LimbBits
        r == n % LimbBits
    IN  Trim([i \in 1..(Len(a) + q + 1) |->
                (Digit(a, i - q) % 2^(LimbBits - r)) * 2^r
                    + Digit(a, i - q - 1) \div 2^(LimbBits - r)])

\* a \div 2^n
ShiftRight(a, n) ==
    LET q == n \div LimbBits
        r == n % LimbBits
    IN  Trim([i \in 1..(Len(a) - q) |->
                Digit(a, i + q) \div 2^r
                    + (Digit(a, i + q + 1) % 2^r) * 2^(LimbBits - r)])

\* the number of binary digits of a
BitLen(a) ==
    IF a = <<>> THEN 0
    ELSE LimbBits * (Len(a) - 1)
            + CHOOSE n \in 1..LimbBits : a[Len(a)] \in 2^(n - 1)..(2^n - 1)

\* the binary digit of a that counts 2^n
Bit(a, n) == (Digit(a, n \div LimbBits + 1) \div 2^(n % LimbBits)) % 2

\* Long division works on numbers below 2^(4 * LimbBits), each held in the
\* two ints  lo + hi * Word.
Word == Limb * Limb
Words(a) == [lo |-> Digit(a, 1) + Limb * Digit(a, 2),
             hi |-> Digit(a, 3) + Limb * Digit(a, 4)]
Limbs(w) == Trim(<<w.lo % Limb, w.lo \div Limb, w.hi % Limb, w.hi \div Limb>>)

\* twice w, and w - v for w >= v
Twice(w) == [lo |-> (2 * w.lo) % Word, hi |-> 2 * w.hi + (2 * w.lo) \div Word]
Less(w, v) == w.hi < v.hi \/ (w.hi = v.hi /\ w.lo < v.lo)
Minus(w, v) == [lo |-> (w.lo - v.lo) % Word,
                hi |-> w.hi - v.hi + (w.lo - v.lo) \div Word]

\* Long division by b # 0: d.q and d.r, the quotient and the remainder of
\* a number by b, become those of 2^n times that number, one binary digit
\* at a time.
RECURSIVE ShiftDiv(_, _, _)
ShiftDiv(d, b, n) ==
    IF n = 0 THEN [q |-> Limbs(d.q), r |-> Limbs(d.r)]
    ELSE IF Less(Twice(d.r), b)
    THEN ShiftDiv([q |-> Twice(d.q), r |-> Twice(d.r)], b, n - 1)
    ELSE ShiftDiv([q |-> [Twice(d.q) EXCEPT !.lo = @ + 1],
                   r |-> Minus(Twice(d.r), b)], b, n - 1)

\* the quotient and the remainder of a * 2^n by b # 0, for a < 2 * b and a
\* quotient below 2^(4 * LimbBits)
Div(a, b, n) ==
    IF BigLess(a, b)
    THEN ShiftDiv([q |-> Words(<<>>), r |-> Words(a)], Words(b), n)
    ELSE ShiftDiv([q |-> Words(<<1>>), r |-> Words(BigSub(a, b))],
                  Words(b), n)

\* the double with the mantissa sum, which has Precision binary digits or
\* one more, and the exponent x
Carried(sum, x) ==
    IF BitLen(sum) > Precision
    THEN [m |-> ShiftRight(sum, 1), x |-> x + 1]
    ELSE [m |-> sum, x |-> x]

\* The double nearest to n * 2^x for n # 0, or to a number just above it
\* when more is set (the digits that a division left out).
Round(n, x, more) ==
    LET d == BitLen(n) - Precision
    IN  IF d <= 0 THEN [m |-> ShiftLeft(n, 0 - d), x |-> x + d]
        ELSE LET above == more \/ ShiftLeft(ShiftRight(n, d - 1), d - 1) # n
                 up    == Bit(n, d - 1) = 1 /\ (above \/ Bit(n, d) = 1)
             IN  Carried(IF up THEN BigAdd(ShiftRight(n, d), <<1>>)
                         ELSE ShiftRight(n, d),
                         x + d)

\* a * b and a / b in float64
FMul(a, b) == Round(BigMul(a.m, b.m), a.x + b.x, FALSE)

FDiv(a, b) ==
    LET d == Div(a.m, b.m, Precision + 2)
    IN  Round(d.q, a.x - b.x - (Precision + 2), d.r # <<>>)

\* a < b for positive doubles
FLess(a, b) == a.x < b.x \/ (a.x = b.x /\ BigLess(a.m, b.m))

\* float64(n) for an int 1 <= n < Limb
FloatOf(n) == Round(<<n>>, 0, FALSE)

\* the float64 constant with the decimal numeral p/q, for 1 <= p, q < Limb
Float(p, q) == FDiv(FloatOf(p), FloatOf(q))

\* the number of a natural number below 2^31
RECURSIVE Value(_)
Value(a) == IF a = <<>> THEN 0 ELSE a[1] + Limb * Value(Tail(a))

\* int(f) for a double below 2^31
Trunc(f) == IF f.x >= 0 THEN Value(ShiftLeft(f.m, f.x))
          ELSE Value(ShiftRight(f.m, 0 - f.x))

----------------------------------------------------------------------------
(* The viewer.  The source holds two versions of the Viewer: part_004 has   *)
(* the field fitMode and divides by 1.1 to zoom out, viewer.go has no       *)
(* fitMode and multiplies by 0.9.  The record of the viewer has the fields  *)
(* of the version that is built.                                            *)

One       == Float(1, 1)
MaxZoom   == Float(10, 1)
MinZoom   == Float(1, 10)
ZoomStep  == Float(11, 10)
ZoomBack  == Float(9, 10)

HasFitMode(v) == "fitMode" \in DOMAIN v
SetFitMode(v, fit) == IF HasFitMode(v) THEN [v EXCEPT !.fitMode = fit] ELSE v

ContentFitContain == "ContentFitContain"
ContentFitFill    == "ContentFitFill"

\* gdk.NewTextureForPixbuf of a buffer that was rotated and scaled to w x h
Texture(buf, rotation, w, h) ==
    [Buf |-> buf, Rotation |-> rotation, W |-> w, H |-> h]

\* NewViewer of part_004 and of viewer.go
NewViewer ==
    [currentPath |-> <<>>, zoomLevel |-> One, rotation |-> 0,
     originalBuf |-> Nil, fitMode |-> TRUE]
NewViewerNoFitMode ==
    [currentPath |-> <<>>, zoomLevel |-> One, rotation |-> 0,
     originalBuf |-> Nil]
NewPicture ==
    [contentFit |-> ContentFitContain, paintable |-> Nil,
     sizeRequest |-> [W |-> -1, H |-> -1]]

\* int(float64(n) * v.zoomLevel)
Scaled(n, zoomLevel) == Trunc(FMul(FloatOf(n), zoomLevel))

\* Viewer.applyTransforms from the rotation on: buf is the original pixbuf,
\* origW and origH the size of the rotated one, newW and newH the size
\* scaled by the zoom level
Transformed(v, p, buf, origW, origH, newW, newH) ==
    LET scaled == newW > 0 /\ newH > 0
        zoomed == Texture(buf, v.rotation,
                          IF scaled THEN newW ELSE origW,
                          IF scaled THEN newH ELSE origH)
    IN  IF HasFitMode(v)
        THEN IF v.fitMode
             THEN [p EXCEPT !.contentFit = ContentFitContain,
                            !.paintable =
                               Ptr(Texture(buf, v.rotation, origW, origH))]
             ELSE [p EXCEPT !.contentFit = ContentFitFill,
                            !.sizeRequest = [W |-> newW, H |-> newH],
                            !.paintable = Ptr(zoomed)]
        ELSE IF v.zoomLevel # One
             THEN [p EXCEPT !.paintable = Ptr(zoomed)]
             ELSE [p EXCEPT !.paintable =
                               Ptr(Texture(buf, v.rotation, origW, origH))]

\* Viewer.applyTransforms: the picture afterwards.  RotateSimple and
\* ScaleSimple are taken to succeed.
applyTransforms(v, p) ==
    IF v.originalBuf = Nil THEN p
    ELSE LET buf  == Deref(v.originalBuf)
             turn == v.rotation \in {90, 270}
         IN  Transformed(v, p, buf,
                         IF turn THEN buf.H ELSE buf.W,
                         IF turn THEN buf.W ELSE buf.H,
                         Scaled(IF turn THEN buf.H ELSE buf.W, v.zoomLevel),
                         Scaled(IF turn THEN buf.W ELSE buf.H, v.zoomLevel))

----------------------------------------------------------------------------
Init ==
    /\ isEditMode = FALSE
    /\ currentTool = ToolNone
    /\ brushSize = DefaultBrushSize
    /\ brushColor = DefaultBrushColor
    /\ isDrawing = FALSE
    /\ currentPath = <<>>
    /\ originalBuf = Nil
    /\ preCropBuf = Nil
    /\ postCropBuf = Nil
    /\ session = Nil
    /\ currentStroke = Nil
    /\ undoStack = <<>>
    /\ redoStack = <<>>
    /\ cropStart = Point(0, 0)
    /\ cropEnd = Point(0, 0)
    /\ isCropping = FALSE
    /\ cropActive = FALSE
    /\ drawArea \in AreaSizes
    /\ cropBtn = FALSE
    /\ penBtn = FALSE
    /\ disk = NoFiles
    /\ loaded = NoCall
    /\ viewer = NewViewer
    /\ picture = NewPicture
    /\ zoomSteps = 0
    /\ images = <<>>
    /\ currentIndex = 0
    /\ gSequence = FALSE
    /\ isFullscreen = FALSE
    /\ quit = FALSE
    /\ errorDialog = ""
    /\ buttonDown = FALSE
    /\ hist = <<>>

\* an EnterEditMode that takes the session from the sidecar of the image,
\* which C16 rules out
EnterEditModeFromSidecar(path, size) ==
    /\ currentPath' = path
    /\ originalBuf' = Ptr(Pixbuf(path, 0, 0, size.W, size.H))
    /\ session' = IF LoadEditSession(disk, path).err = ""
                  THEN LoadEditSession(disk, path).session
                  ELSE Ptr(NewEditSession(path))
    /\ currentStroke' = Nil
    /\ isDrawing' = FALSE
    /\ cropActive' = (Deref(session').Crop # Nil)
    /\ undoStack' = <<>>
    /\ redoStack' = <<>>
    /\ isEditMode' = TRUE
    /\ hist' = <<[op |-> "load",
                  type |-> IF session # Nil /\ HasEdits(Deref(session))
                           THEN "edited" ELSE "fresh",
                  sess |-> Deref(session'),
                  buf |-> Ptr(Pixbuf(path, 0, 0, size.W, size.H)),
                  nredo |-> Len(redoStack)]>>
    /\ UNCHANGED <<toolVars, preCropBuf, postCropBuf, cropStart, cropEnd,
                   isCropping, drawArea, btnVars, fileVars, winVars, buttonDown>>

\* Window.EnterEditMode from its call of EditorView.LoadImage(path, pixbuf)
\* on
EditImage(path, pixbuf) ==
    /\ currentPath' = path
    /\ originalBuf' = Ptr(pixbuf)
    /\ session' = Ptr(NewEditSession(path))
    /\ currentStroke' = Nil
    /\ isDrawing' = FALSE
    /\ cropActive' = (NewEditSession(path).Crop # Nil)
    /\ undoStack' = <<>>
    /\ redoStack' = <<>>
    /\ isEditMode' = TRUE
    /\ hist' = <<[op |-> "load",
                  type |-> IF session # Nil /\ HasEdits(Deref(session))
                           THEN "edited" ELSE "fresh",
                  sess |-> NewEditSession(path),
                  buf |-> Ptr(pixbuf),
                  nredo |-> Len(redoStack)]>>
    /\ UNCHANGED <<toolVars, preCropBuf, postCropBuf, cropStart, cropEnd,
                   isCropping, drawArea, btnVars, fileVars, winVars, buttonDown>>

\* Window.EnterEditMode on an image of the given path and size, the pixbuf
\* being the viewer's, the whole image
EnterEditMode(path, size) ==
    EditImage(path, Pixbuf(path, 0, 0, size.W, size.H))

\* Window.ExitEditMode: asks for confirmation when the session has edits
ExitEditMode(discard) ==
    /\ isEditMode
    /\ isEditMode' = IF session # Nil /\ HasEdits(Deref(session))
                     THEN ~discard ELSE FALSE
    /\ UNCHANGED <<toolVars, penVars, bufVars, stackVars, cropVars, session,
                   currentPath, drawArea, btnVars, fileVars, winVars, buttonDown, hist>>

\* the variables of the editor and its window
editorVars == <<toolVars, penVars, bufVars, stackVars, cropVars, envVars,
                btnVars, session, buttonDown, hist>>

\* a call of SaveEditSession(s)
SaveSession(s, ok) ==
    /\ disk' = SaveEditSession(disk, s, ok)
    /\ loaded' = [op |-> "save", path |-> s.ImagePath, session |-> Ptr(s),
                  err |-> IF ok THEN "" ELSE "write"]
    /\ UNCHANGED <<editorVars, winVars>>

\* a call of LoadEditSession(path); after is the operation before it
LoadSession(path) ==
    /\ loaded' = [op |-> "load", path |-> path,
                  session |-> LoadEditSession(disk, path).session,
                  err |-> LoadEditSession(disk, path).err,
                  after |-> [op |-> loaded.op, path |-> loaded.path,
                             session |-> loaded.session, err |-> loaded.err]]
    /\ UNCHANGED <<disk, editorVars, winVars>>

\* another program writes a file
OtherWrite(name, content) ==
    /\ disk' = WriteFile(disk, name, content)
    /\ loaded' = [op |-> "write", path |-> name, session |-> Nil, err |-> ""]
    /\ UNCHANGED <<editorVars, winVars>>

\* Window.ShowError: the dialog opens with the message
ShowError(message) == errorDialog' = message

\* the OK button, Escape or Return in the dialog of ShowError: it closes
CloseError ==
    /\ errorDialog # ""
    /\ errorDialog' = ""
    /\ UNCHANGED <<editorVars, fileVars, viewVars, images, currentIndex,
                   gSequence, isFullscreen, quit>>

\* a saveEdits that leaves edit mode whether or not the sidecar was written,
\* which C35 rules out
saveEditsAlwaysExits(ok) ==
    /\ isEditMode
    /\ IF session = Nil
       THEN UNCHANGED <<fileVars, isEditMode, errorDialog>>
       ELSE /\ disk' = SaveEditSession(disk, Deref(session), ok)
            /\ loaded' = [op |-> "save", path |-> Deref(session).ImagePath,
                          session |-> session,
                          err |-> IF ok THEN "" ELSE "write"]
            /\ isEditMode' = FALSE
            /\ IF ok THEN UNCHANGED errorDialog
               ELSE ShowError("Failed to save edits")
    /\ UNCHANGED <<toolVars, penVars, bufVars, stackVars, cropVars, btnVars,
                   currentPath, drawArea, session, buttonDown, hist, viewVars,
                   images, currentIndex, gSequence, isFullscreen, quit>>

\* Window.saveEdits, the save callback of the editor: the session goes to
\* its sidecar and the window leaves edit mode, unless the write fails
saveEdits(ok) ==
    /\ isEditMode
    /\ IF session = Nil
       THEN UNCHANGED <<fileVars, isEditMode, errorDialog>>
       ELSE /\ disk' = SaveEditSession(disk, Deref(session), ok)
            /\ loaded' = [op |-> "save", path |-> Deref(session).ImagePath,
                          session |-> session,
                          err |-> IF ok THEN "" ELSE "write"]
            /\ IF ok
               THEN isEditMode' = FALSE /\ UNCHANGED errorDialog
               ELSE ShowError("Failed to save edits") /\ UNCHANGED isEditMode
    /\ UNCHANGED <<toolVars, penVars, bufVars, stackVars, cropVars, btnVars,
                   currentPath, drawArea, session, buttonDown, hist, viewVars,
                   images, currentIndex, gSequence, isFullscreen, quit>>

----------------------------------------------------------------------------
(* Tool and brush selection. *)

\* EditorView.setTool, as the keys c and p of edit mode call it; the panels
\* it shows and hides are not modelled
setTool(tool) ==
    /\ isEditMode
    /\ currentTool' = tool
    /\ UNCHANGED <<brushSize, brushColor, penVars, bufVars, stackVars,
                   cropVars, envVars, btnVars, fileVars, winVars, session, buttonDown, hist>>

\* EditorView.selectTool: the other toggle button is released (its toggled
\* callback finds it inactive and at most sets the tool to none), then
\* setTool(tool)
selectTool(tool) ==
    /\ CASE tool = ToolCrop -> penBtn' = FALSE
         [] tool = ToolPen  -> cropBtn' = FALSE
    /\ currentTool' = tool

\* a click on the crop toggle button: the button changes and cropBtn's
\* toggled callback runs
ToggleCrop ==
    /\ isEditMode
    /\ cropBtn' = ~cropBtn
    /\ IF ~cropBtn
       THEN selectTool(ToolCrop)
       ELSE /\ currentTool' = IF currentTool = ToolCrop THEN ToolNone
                               ELSE currentTool
            /\ UNCHANGED penBtn
    /\ UNCHANGED <<brushSize, brushColor, penVars, bufVars, stackVars,
                   cropVars, envVars, fileVars, winVars, session, buttonDown, hist>>

\* a click on the pen toggle button: the button changes and penBtn's
\* toggled callback runs
TogglePen ==
    /\ isEditMode
    /\ penBtn' = ~penBtn
    /\ IF ~penBtn
       THEN selectTool(ToolPen)
       ELSE /\ currentTool' = IF currentTool = ToolPen THEN ToolNone
                               ELSE currentTool
            /\ UNCHANGED cropBtn
    /\ UNCHANGED <<brushSize, brushColor, penVars, bufVars, stackVars,
                   cropVars, envVars, fileVars, winVars, session, buttonDown, hist>>

\* the value-changed callback of the size scale (the properties panel is
\* shown while the pen or the eraser is the tool)
SetBrushSize(size) ==
    /\ isEditMode
    /\ currentTool \in {ToolPen, ToolEraser}
    /\ brushSize' = size
    /\ UNCHANGED <<currentTool, brushColor, penVars, bufVars, stackVars,
                   cropVars, envVars, btnVars, fileVars, winVars, session, buttonDown, hist>>

\* a colour button that also recolours the stroke in progress, which C24
\* rules out
SetBrushColorOfStroke(color) ==
    /\ isEditMode
    /\ currentTool \in {ToolPen, ToolEraser}
    /\ brushColor' = color
    /\ currentStroke' = IF currentStroke = Nil THEN Nil
                        ELSE Ptr([Deref(currentStroke) EXCEPT !.Color = color])
    /\ UNCHANGED <<currentTool, brushSize, isDrawing, bufVars, stackVars,
                   cropVars, envVars, btnVars, fileVars, winVars, session,
                   buttonDown, hist>>

\* the clicked callback of a colour button
SetBrushColor(color) ==
    /\ isEditMode
    /\ currentTool \in {ToolPen, ToolEraser}
    /\ brushColor' = color
    /\ UNCHANGED <<currentTool, brushSize, penVars, bufVars, stackVars,
                   cropVars, envVars, btnVars, fileVars, winVars, session, buttonDown, hist>>

----------------------------------------------------------------------------
(* The history stacks.  The editor state the edit operations work on is     *)
(* carried in a record  [sess, undo, redo, hist]  so that the loop of       *)
(* eraseStrokesAt can thread it through its iterations.                     *)

EdState == [sess |-> Deref(session), undo |-> undoStack, redo |-> redoStack,
            hist |-> hist]

\* a pushUndo that keeps the redo stack, which C1 rules out
pushUndoKeepsRedo(st, action) ==
    [st EXCEPT !.undo = Append(st.undo, action)]

\* EditorView.pushUndo, on the stacks of st
pushUndo(st, action) ==
    [st EXCEPT !.undo = Append(st.undo, action), !.redo = <<>>]

\* the history variable's entry for an operation starting in st
Noted(st, op, type) ==
    [st EXCEPT !.hist = Logged(st.hist,
        [op |-> op, type |-> type, sess |-> st.sess, buf |-> originalBuf,
         nredo |-> Len(st.redo)])]

----------------------------------------------------------------------------
(* The eraser. *)

\* a test that also hits at the threshold distance, which C10 rules out
PointHitInclusive(pt, x, y, size, stroke) ==
    LET dx == pt.X - x
        dy == pt.Y - y
    IN  4 * (dx * dx + dy * dy)
            <= (size + stroke.BrushSize) * (size + stroke.BrushSize)

\* The test of eraseStrokesAt for one point: dist < threshold, where
\* threshold = (brushSize/2 + stroke.BrushSize/2)^2.  Both sides are
\* multiplied by four, which keeps the halves exact.
PointHit(pt, x, y, size, stroke) ==
    LET dx == pt.X - x
        dy == pt.Y - y
        dist == dx * dx + dy * dy
        threshold4 == (size + stroke.BrushSize) * (size + stroke.BrushSize)
    IN  4 * dist < threshold4

\* the indices collected in strokesToRemove, ascending
StrokesToRemove(strokes, x, y, size) ==
    LET F[i \in 0..Len(strokes)] ==
            IF i = 0 THEN <<>>
            ELSE IF \E k \in 1..Len(strokes[i].Points) :
                        PointHit(strokes[i].Points[k], x, y, size, strokes[i])
                 THEN Append(F[i - 1], i)
                 ELSE F[i - 1]
    IN  F[Len(strokes)]

\* a removal loop that runs from the first collected index up to the last
\* and passes over an index beyond the end of the list, which C11 rules out
RECURSIVE EraseLoopAscending(_, _, _)
EraseLoopAscending(st, toRemove, i) ==
    IF i = 0 THEN st
    ELSE LET idx == toRemove[Len(toRemove) - i + 1]
         IN  IF idx > Len(st.sess.Strokes)
             THEN EraseLoopAscending(st, toRemove, i - 1)
             ELSE LET pushed == pushUndo(Noted(st, "erase", "erase"),
                                   EditAction("erase",
                                       StrokeData(st.sess.Strokes[idx])))
                      removed == [pushed EXCEPT
                                    !.sess.Strokes = RemoveAt(st.sess.Strokes, idx)]
                  IN  EraseLoopAscending(removed, toRemove, i - 1)

\* the removal loop: i runs from the last collected index down to the first
RECURSIVE EraseLoop(_, _, _)
EraseLoop(st, toRemove, i) ==
    IF i = 0 THEN st
    ELSE LET idx == toRemove[i]
             noted == Noted(st, "erase", "erase")
             pushed == pushUndo(noted,
                           EditAction("erase", StrokeData(st.sess.Strokes[idx])))
             removed == [pushed EXCEPT
                           !.sess.Strokes = RemoveAt(st.sess.Strokes, idx)]
         IN  EraseLoop(removed, toRemove, i - 1)

\* EditorView.eraseStrokesAt
eraseStrokesAt(st, x, y, size) ==
    IF Len(st.sess.Strokes) = 0 THEN st
    ELSE LET toRemove == StrokesToRemove(st.sess.Strokes, x, y, size)
         IN  EraseLoop(st, toRemove, Len(toRemove))

----------------------------------------------------------------------------
(* The pen. *)

\* a startStroke that takes the initial colour instead of the chosen one,
\* which C9 rules out
startStrokeInitialColor(x, y) ==
    /\ isDrawing' = TRUE
    /\ currentStroke' = Ptr([Tool |-> "pen", Color |-> DefaultBrushColor,
                             BrushSize |-> brushSize,
                             Points |-> <<Point(x, y)>>])

\* EditorView.startStroke
startStroke(x, y) ==
    /\ isDrawing' = TRUE
    /\ currentStroke' = Ptr([Tool |-> "pen", Color |-> brushColor,
                             BrushSize |-> brushSize,
                             Points |-> <<Point(x, y)>>])

\* EditorView.endStroke, on the session and stacks of st
endStroke(st) ==
    IF currentStroke # Nil /\ Len(Deref(currentStroke).Points) > 0
    THEN LET noted == Noted(st, "stroke", "stroke")
             added == [noted EXCEPT
                          !.sess = AddStroke(st.sess, Deref(currentStroke))]
         IN  pushUndo(added,
                      EditAction("stroke", StrokeData(Deref(currentStroke))))
    ELSE st

\* writes an editor state back to the variables
Stored(st) ==
    /\ Len(st.sess.Strokes) <= MaxStrokes
    /\ session' = Ptr(st.sess)
    /\ undoStack' = st.undo
    /\ redoStack' = st.redo
    /\ hist' = st.hist

----------------------------------------------------------------------------
(* The crop selection. *)

\* EditorView.startCrop
startCrop(x, y) ==
    /\ isCropping' = TRUE
    /\ cropStart' = Point(x, y)
    /\ cropEnd' = Point(x, y)

\* EditorView.endCrop
endCrop ==
    /\ isCropping' = FALSE
    /\ cropActive' = TRUE

\* a cancelCrop that clears the flags and keeps the rectangle, which C13
\* rules out
cancelCropKeepsRectangle ==
    /\ cropActive' = FALSE
    /\ isCropping' = FALSE
    /\ UNCHANGED <<cropStart, cropEnd>>

\* EditorView.cancelCrop
cancelCropEffect ==
    /\ cropActive' = FALSE
    /\ isCropping' = FALSE
    /\ cropStart' = Point(0, 0)
    /\ cropEnd' = Point(0, 0)

\* the clicked callback of the crop panel's Cancel button
cancelCrop ==
    /\ isEditMode
    /\ currentTool = ToolCrop
    /\ cancelCropEffect
    /\ UNCHANGED <<toolVars, penVars, bufVars, stackVars, envVars, btnVars, fileVars, winVars,
                   session, buttonDown, hist>>

----------------------------------------------------------------------------
(* The pointer handlers of setupMouseEvents. *)

\* gesture.ConnectPressed
Pressed(x, y) ==
    /\ isEditMode
    /\ ~buttonDown
    /\ buttonDown' = TRUE
    /\ CASE currentTool = ToolPen ->
                /\ Len(undoStack) + Len(redoStack) < MaxActions
                /\ startStroke(x, y)
                /\ UNCHANGED <<session, stackVars, hist, cropVars>>
         [] currentTool = ToolEraser ->
                LET st == eraseStrokesAt(EdState, x, y, brushSize)
                IN  /\ Len(undoStack) <= MaxActions
                    /\ isDrawing' = TRUE
                    /\ Stored(st)
                    /\ UNCHANGED <<currentStroke, cropVars>>
         [] currentTool = ToolCrop ->
                /\ startCrop(x, y)
                /\ UNCHANGED <<cropActive, penVars, session, stackVars, hist>>
         [] OTHER ->
                UNCHANGED <<penVars, session, stackVars, hist, cropVars>>
    /\ UNCHANGED <<toolVars, bufVars, envVars, btnVars, fileVars, winVars>>

\* motion.ConnectMotion
Motion(x, y) ==
    /\ isEditMode
    /\ IF isDrawing /\ currentStroke # Nil /\ currentTool = ToolPen
       THEN /\ Len(Deref(currentStroke).Points) < MaxPoints
            /\ currentStroke' = Ptr([Deref(currentStroke) EXCEPT
                   !.Points = Append(@, Point(x, y))])
       ELSE UNCHANGED currentStroke
    /\ IF isDrawing /\ currentTool = ToolEraser
       THEN LET st == eraseStrokesAt(EdState, x, y, brushSize)
            IN  /\ Len(undoStack) <= MaxActions
                /\ Stored(st)
       ELSE UNCHANGED <<session, stackVars, hist>>
    /\ IF isCropping
       THEN cropEnd' = Point(x, y)
       ELSE UNCHANGED cropEnd
    /\ UNCHANGED <<toolVars, isDrawing, bufVars, envVars, btnVars, fileVars, winVars, cropStart,
                   isCropping, cropActive, buttonDown>>

\* gesture.ConnectReleased
Released(x, y) ==
    /\ isEditMode
    /\ buttonDown
    /\ buttonDown' = FALSE
    /\ CASE currentTool = ToolPen ->
                LET st == endStroke(EdState)
                IN  /\ Len(st.undo) <= MaxActions
                    /\ Stored(st)
                    /\ currentStroke' = Nil
                    /\ isDrawing' = FALSE
                    /\ UNCHANGED cropVars
         [] currentTool = ToolEraser ->
                /\ isDrawing' = FALSE
                /\ UNCHANGED <<currentStroke, session, stackVars, hist, cropVars>>
         [] currentTool = ToolCrop ->
                /\ endCrop
                /\ UNCHANGED <<cropStart, cropEnd, penVars, session, stackVars,
                               hist>>
         [] OTHER ->
                UNCHANGED <<penVars, session, stackVars, hist, cropVars>>
    /\ UNCHANGED <<toolVars, bufVars, envVars, btnVars, fileVars, winVars>>

----------------------------------------------------------------------------
(* Apply Crop. *)

\* The region applyCropToImage computes for the selection from a to b on an
\* image of imgW x imgH shown in an area of areaW x areaH.  The scale is
\* sn/sd = min(areaW/imgW, areaH/imgH); an image coordinate is the fraction
\* ImgNum / den with den = 2*sn.
CropRegionOf(a, b, areaW, areaH, imgW, imgH) ==
    LET screenX1 == Min(a.X, b.X)
        screenY1 == Min(a.Y, b.Y)
        screenX2 == Max(a.X, b.X)
        screenY2 == Max(a.Y, b.Y)
        fitW == areaW * imgH <= areaH * imgW
        sn == IF fitW THEN areaW ELSE areaH
        sd == IF fitW THEN imgW ELSE imgH
        den == 2 * sn
        \* (screen - offset) / scaleToFit, offset = (area - img*scale) / 2
        ImgNum(screen, area, img) == 2 * sd * screen - area * sd + img * sn
        imgX1 == ImgNum(screenX1, areaW, imgW)
        imgY1 == ImgNum(screenY1, areaH, imgH)
        imgX2 == ImgNum(screenX2, areaW, imgW)
        imgY2 == ImgNum(screenY2, areaH, imgH)
        cropX == Max(0, Min(imgX1, (imgW - 1) * den)) \div den
        cropY == Max(0, Min(imgY1, (imgH - 1) * den)) \div den
        cropW == Max(den, Min(imgX2 - imgX1, (imgW - cropX) * den)) \div den
        cropH == Max(den, Min(imgY2 - imgY1, (imgH - cropY) * den)) \div den
    IN  [X |-> cropX, Y |-> cropY, Width |-> cropW, Height |-> cropH,
         Ratio |-> ""]

\* EditorView.applyCropToImage, the clicked callback of Apply Crop (the crop
\* panel is shown while the crop tool is the tool)
applyCropToImage ==
    /\ isEditMode
    /\ currentTool = ToolCrop
    /\ Len(undoStack) < MaxActions
    /\ IF ~cropActive \/ originalBuf = Nil
       THEN UNCHANGED <<bufVars, session, stackVars, hist, cropVars>>
       ELSE LET buf == Deref(originalBuf)
                crop == CropRegionOf(cropStart, cropEnd, drawArea.W,
                                     drawArea.H, buf.W, buf.H)
                croppedBuf == NewSubpixbuf(buf, crop.X, crop.Y, crop.Width,
                                           crop.Height)
            IN  /\ preCropBuf' = Ptr(Copy(buf))
                /\ IF crop.Width <= 0 \/ crop.Height <= 0 \/ croppedBuf = Nil
                   THEN UNCHANGED <<originalBuf, postCropBuf, session,
                                    stackVars, hist, cropVars>>
                   ELSE LET noted == Noted(EdState, "crop", "crop")
                            set == [noted EXCEPT
                                      !.sess = SetCrop(@, Ptr(crop))]
                        IN  /\ originalBuf' = Ptr(Copy(Deref(croppedBuf)))
                            /\ postCropBuf' = Ptr(Copy(Deref(croppedBuf)))
                            /\ Stored(pushUndo(set, EditAction("crop", NoData)))
                            /\ cancelCropEffect
    /\ UNCHANGED <<toolVars, penVars, envVars, btnVars, fileVars, winVars, buttonDown>>

\* EditorView.ApplyCrop, the exported method: the selection goes into the
\* session as it is, in the coordinates of the drawing area
ApplyCrop ==
    /\ isEditMode
    /\ Len(undoStack) < MaxActions
    /\ IF ~cropActive
       THEN UNCHANGED <<session, stackVars, hist>>
       ELSE LET x1 == Min(cropStart.X, cropEnd.X)
                y1 == Min(cropStart.Y, cropEnd.Y)
                x2 == Max(cropStart.X, cropEnd.X)
                y2 == Max(cropStart.Y, cropEnd.Y)
                crop == [X |-> x1, Y |-> y1, Width |-> x2 - x1,
                         Height |-> y2 - y1, Ratio |-> ""]
                noted == Noted(EdState, "crop", "crop")
                set == [noted EXCEPT !.sess = SetCrop(@, Ptr(crop))]
            IN  Stored(pushUndo(set, EditAction("crop", CropData(Ptr(crop)))))
    /\ UNCHANGED <<toolVars, penVars, bufVars, cropVars, envVars, btnVars, fileVars, winVars,
                   buttonDown>>

\* the drawing area is given another size (the window is resized)
Resize(size) ==
    /\ drawArea' = size
    /\ UNCHANGED <<isEditMode, currentPath, toolVars, penVars, bufVars,
                   stackVars, cropVars, btnVars, fileVars, winVars, session, buttonDown, hist>>

----------------------------------------------------------------------------
(* Undo and Redo. *)

\* an Undo of "stroke" that removes the oldest stroke, which C3 rules out
UndoStrokeOldest(sess) ==
    IF Len(sess.Strokes) > 0
    THEN [sess EXCEPT !.Strokes = SubSeq(@, 2, Len(@))]
    ELSE sess

\* Undo, case "stroke": the last stroke leaves the session
UndoStroke(sess) ==
    IF Len(sess.Strokes) > 0
    THEN [sess EXCEPT !.Strokes = SubSeq(@, 1, Len(@) - 1)]
    ELSE sess

\* Undo, case "erase": the erased stroke is added again
UndoErase(sess, action) ==
    IF action.Data.Kind = "Stroke"
    THEN AddStroke(sess, action.Data.Stroke)
    ELSE sess

\* Undo, case "crop", the buffers: <<originalBuf, preCropBuf>> afterwards
UndoCropBufs(original, pre) ==
    IF pre # Nil THEN <<Ptr(Copy(Deref(pre))), Nil>> ELSE <<original, pre>>

\* a Redo of "stroke" that adds the stroke without its points, which C4
\* rules out
RedoStrokeNoPoints(sess, action) ==
    IF action.Data.Kind = "Stroke"
    THEN AddStroke(sess, [action.Data.Stroke EXCEPT !.Points = <<>>])
    ELSE sess

\* Redo, case "stroke": the stroke is added again
RedoStroke(sess, action) ==
    IF action.Data.Kind = "Stroke"
    THEN AddStroke(sess, action.Data.Stroke)
    ELSE sess

\* the index Redo's loop stops at: the first stroke with the point count and
\* colour of the erased one, 0 when there is none
FirstMatch(strokes, stroke) ==
    LET hits == {i \in 1..Len(strokes) :
                    /\ Len(strokes[i].Points) = Len(stroke.Points)
                    /\ strokes[i].Color = stroke.Color}
    IN  IF hits = {} THEN 0 ELSE CHOOSE i \in hits : \A j \in hits : i <= j

\* Redo, case "erase": the first matching stroke leaves the session
RedoErase(sess, action) ==
    IF /\ action.Data.Kind = "Stroke"
       /\ FirstMatch(sess.Strokes, action.Data.Stroke) # 0
    THEN [sess EXCEPT !.Strokes =
            RemoveAt(@, FirstMatch(sess.Strokes, action.Data.Stroke))]
    ELSE sess

\* Redo, case "crop", the buffers: <<originalBuf, preCropBuf>> afterwards
RedoCropBufs(original, pre, post) ==
    IF post # Nil THEN <<Ptr(Copy(Deref(post))), Ptr(Copy(Deref(original)))>>
    ELSE <<original, pre>>

\* Redo, case "crop", the session: the crop of the action, when it has one
RedoCrop(sess, action) ==
    IF action.Data.Kind = "*CropRegion"
    THEN SetCrop(sess, action.Data.Crop)
    ELSE sess

\* an Undo that deselects the crop before it looks at the stack, which C8
\* rules out
UndoEmptyDeselects ==
    /\ cropActive' = FALSE
    /\ UNCHANGED <<stackVars, session, bufVars, hist>>

\* Undo with an empty undo stack returns at once
UndoEmpty == UNCHANGED <<stackVars, session, bufVars, cropActive, hist>>

\* Redo with an empty redo stack returns at once
RedoEmpty == UNCHANGED <<stackVars, session, bufVars, cropActive, hist>>

\* an Undo that drops the action it pops, which C34 rules out
UndoDropsAction ==
    /\ isEditMode
    /\ undoStack # <<>>
    /\ undoStack' = SubSeq(undoStack, 1, Len(undoStack) - 1)
    /\ UNCHANGED <<redoStack, session, bufVars, cropVars, hist, toolVars,
                   penVars, envVars, btnVars, fileVars, winVars, buttonDown>>

\* EditorView.Undo
Undo ==
    /\ isEditMode
    /\ IF Len(undoStack) = 0
       THEN UndoEmpty
       ELSE LET action == undoStack[Len(undoStack)]
                sess == Deref(session)
            IN  /\ undoStack' = SubSeq(undoStack, 1, Len(undoStack) - 1)
                /\ redoStack' = Append(redoStack, action)
                /\ hist' = Noted(EdState, "undo", action.Type).hist
                /\ CASE action.Type = "stroke" ->
                            /\ session' = Ptr(UndoStroke(sess))
                            /\ UNCHANGED <<bufVars, cropActive>>
                     [] action.Type = "erase" ->
                            /\ session' = Ptr(UndoErase(sess, action))
                            /\ UNCHANGED <<bufVars, cropActive>>
                     [] action.Type = "crop" ->
                            /\ originalBuf' =
                                  UndoCropBufs(originalBuf, preCropBuf)[1]
                            /\ preCropBuf' =
                                  UndoCropBufs(originalBuf, preCropBuf)[2]
                            /\ session' = Ptr(ClearCrop(sess))
                            /\ cropActive' = FALSE
                            /\ UNCHANGED postCropBuf
                     [] OTHER ->
                            UNCHANGED <<session, bufVars, cropActive>>
                /\ Len(Deref(session').Strokes) <= MaxStrokes
    /\ UNCHANGED <<toolVars, penVars, envVars, btnVars, fileVars, winVars, cropStart,
                   cropEnd, isCropping,
                   buttonDown>>

\* EditorView.Redo
Redo ==
    /\ isEditMode
    /\ IF Len(redoStack) = 0
       THEN RedoEmpty
       ELSE LET action == redoStack[Len(redoStack)]
                sess == Deref(session)
                bufs == RedoCropBufs(originalBuf, preCropBuf, postCropBuf)
            IN  /\ redoStack' = SubSeq(redoStack, 1, Len(redoStack) - 1)
                /\ undoStack' = Append(undoStack, action)
                /\ hist' = Noted(EdState, "redo", action.Type).hist
                /\ CASE action.Type = "stroke" ->
                            /\ session' = Ptr(RedoStroke(sess, action))
                            /\ UNCHANGED <<bufVars, cropActive>>
                     [] action.Type = "erase" ->
                            /\ session' = Ptr(RedoErase(sess, action))
                            /\ UNCHANGED <<bufVars, cropActive>>
                     [] action.Type = "crop" ->
                            /\ originalBuf' = bufs[1]
                            /\ preCropBuf' = bufs[2]
                            /\ session' = Ptr(RedoCrop(sess, action))
                            /\ cropActive' = TRUE
                            /\ UNCHANGED postCropBuf
                     [] OTHER ->
                            UNCHANGED <<session, bufVars, cropActive>>
                /\ Len(Deref(session').Strokes) <= MaxStrokes
    /\ UNCHANGED <<toolVars, penVars, envVars, btnVars, fileVars, winVars, cropStart,
                   cropEnd, isCropping,
                   buttonDown>>

----------------------------------------------------------------------------
(* The methods of the Viewer. *)

\* Viewer.LoadImage on the variables of the viewer; ok is whether
\* gdkpixbuf.NewPixbufFromFile succeeds
ViewerLoadImage(path, size, ok) ==
    /\ viewer' = LET v == SetFitMode([viewer EXCEPT !.currentPath = path,
                                                    !.rotation = 0,
                                                    !.zoomLevel = One], TRUE)
                 IN  IF ok
                     THEN [v EXCEPT !.originalBuf =
                                Ptr(Pixbuf(path, 0, 0, size.W, size.H))]
                     ELSE v
    /\ picture' = IF ~ok THEN [picture EXCEPT !.paintable = Nil]
                  ELSE IF HasFitMode(viewer)
                  THEN applyTransforms(viewer', picture)
                  ELSE applyTransforms(viewer',
                           [picture EXCEPT !.contentFit = ContentFitContain])
    /\ zoomSteps' = 0

\* Viewer.LoadImage
LoadImage(path, size, ok) ==
    /\ ViewerLoadImage(path, size, ok)
    /\ UNCHANGED <<editorVars, fileVars, appVars>>

\* a rotation whose counter-clockwise turn is a half turn, which C23 rules
\* out
TurnedHalf(rotation, clockwise) ==
    IF clockwise THEN (rotation + 90) % 360 ELSE (rotation + 180) % 360

\* (rotation + 90) % 360 and (rotation + 270) % 360
Turned(rotation, clockwise) ==
    IF clockwise THEN (rotation + 90) % 360 ELSE (rotation + 270) % 360

\* Viewer.Rotate
Rotate(clockwise) ==
    /\ viewer' = [viewer EXCEPT !.rotation = Turned(viewer.rotation, clockwise)]
    /\ picture' = applyTransforms(viewer', picture)
    /\ UNCHANGED <<zoomSteps, editorVars, fileVars, appVars>>

\* zoomLevel *= 1.1 without a bound, which C21 rules out
EnlargedUnbounded(zoomLevel) == FMul(zoomLevel, ZoomStep)

\* zoomLevel *= 1.1 with its bound
Enlarged(zoomLevel) ==
    LET z == FMul(zoomLevel, ZoomStep)
    IN  IF FLess(MaxZoom, z) THEN MaxZoom ELSE z

\* zoomLevel /= 1.1 in part_004, zoomLevel *= 0.9 in viewer.go, with its
\* bound
Reduced(v, zoomLevel) ==
    LET z == IF HasFitMode(v) THEN FDiv(zoomLevel, ZoomStep)
             ELSE FMul(zoomLevel, ZoomBack)
    IN  IF FLess(z, MinZoom) THEN MinZoom ELSE z

\* Viewer.ZoomIn
ZoomIn ==
    /\ zoomSteps < MaxZoomSteps
    /\ zoomSteps' = zoomSteps + 1
    /\ viewer' =
          IF HasFitMode(viewer)
          THEN [viewer EXCEPT
                   !.zoomLevel = Enlarged(IF viewer.fitMode THEN One ELSE @),
                   !.fitMode = FALSE]
          ELSE [viewer EXCEPT !.zoomLevel = Enlarged(@)]
    /\ picture' = IF HasFitMode(viewer)
                  THEN applyTransforms(viewer', picture)
                  ELSE applyTransforms(viewer',
                           [picture EXCEPT !.contentFit = ContentFitFill])
    /\ UNCHANGED <<editorVars, fileVars, appVars>>

\* Viewer.ZoomOut
ZoomOut ==
    /\ zoomSteps < MaxZoomSteps
    /\ zoomSteps' = zoomSteps + 1
    /\ viewer' =
          IF HasFitMode(viewer)
          THEN [viewer EXCEPT
                   !.zoomLevel =
                      Reduced(viewer, IF viewer.fitMode THEN One ELSE @),
                   !.fitMode = FALSE]
          ELSE [viewer EXCEPT !.zoomLevel = Reduced(viewer, @)]
    /\ picture' = IF HasFitMode(viewer)
                  THEN applyTransforms(viewer', picture)
                  ELSE applyTransforms(viewer',
                           [picture EXCEPT !.contentFit = ContentFitFill])
    /\ UNCHANGED <<editorVars, fileVars, appVars>>

\* Viewer.ZoomFit
ZoomFit ==
    /\ viewer' = SetFitMode([viewer EXCEPT !.zoomLevel = One], TRUE)
    /\ picture' =
          IF HasFitMode(viewer)
          THEN applyTransforms(viewer',
                   [picture EXCEPT !.sizeRequest = [W |-> -1, H |-> -1]])
          ELSE applyTransforms(viewer',
                   [picture EXCEPT !.contentFit = ContentFitContain])
    /\ zoomSteps' = 0
    /\ UNCHANGED <<editorVars, fileVars, appVars>>

\* Viewer.ZoomOriginal
ZoomOriginal ==
    /\ viewer' = SetFitMode([viewer EXCEPT !.zoomLevel = One], FALSE)
    /\ picture' = IF HasFitMode(viewer)
                  THEN applyTransforms(viewer', picture)
                  ELSE applyTransforms(viewer',
                           [picture EXCEPT !.contentFit = ContentFitFill])
    /\ zoomSteps' = 0
    /\ UNCHANGED <<editorVars, fileVars, appVars>>

\* Viewer.Clear on the variables of the viewer
ViewerClear ==
    /\ viewer' = SetFitMode([viewer EXCEPT !.originalBuf = Nil,
                                           !.currentPath = <<>>,
                                           !.zoomLevel = One,
                                           !.rotation = 0], TRUE)
    /\ picture' = IF HasFitMode(viewer)
                  THEN [picture EXCEPT !.paintable = Nil,
                                       !.sizeRequest = [W |-> -1, H |-> -1]]
                  ELSE [picture EXCEPT !.paintable = Nil]
    /\ zoomSteps' = 0

\* Viewer.Clear
Clear ==
    /\ ViewerClear
    /\ UNCHANGED <<editorVars, fileVars, appVars>>

----------------------------------------------------------------------------
(* The App and the key bindings of the Window. *)

\* an image file on the disk, of a size
ImageFile(size) == [kind |-> "image", size |-> size]

\* whether gdkpixbuf.NewPixbufFromFile(path) succeeds
Decodes(files, path) == path \in DOMAIN files /\ files[path].kind = "image"

\* the size of the image it gives
DecodedSize(files, path) ==
    IF Decodes(files, path) THEN files[path].size ELSE [W |-> 0, H |-> 0]

\* image.MoveToTrash: gio trash, or else os.Remove; ok is whether one of
\* them succeeds on a file that is there
MoveToTrash(files, path, ok) ==
    IF path \in DOMAIN files /\ ok
    THEN [files |-> [n \in DOMAIN files \ {path} |-> files[n]], err |-> ""]
    ELSE [files |-> files, err |-> "remove"]

\* image.Rename; ok is whether os.Rename succeeds on a file that is there
Rename(files, oldPath, newName, ok) ==
    LET newPath == Join(Dir(oldPath), newName)
    IN  IF newPath \in DOMAIN files
        THEN [files |-> files, path |-> <<>>, err |-> "file already exists"]
        ELSE IF oldPath \notin DOMAIN files \/ ~ok
        THEN [files |-> files, path |-> <<>>, err |-> "rename"]
        ELSE [files |-> [n \in (DOMAIN files \ {oldPath}) \cup {newPath} |->
                            IF n = newPath THEN files[oldPath] ELSE files[n]],
              path |-> newPath, err |-> ""]

\* supportedExtensions
SupportedExtensions ==
    {<<".", "j", "p", "g">>, <<".", "j", "p", "e", "g">>,
     <<".", "p", "n", "g">>, <<".", "g", "i", "f">>,
     <<".", "w", "e", "b", "p">>, <<".", "b", "m", "p">>,
     <<".", "s", "v", "g">>, <<".", "t", "i", "f", "f">>,
     <<".", "t", "i", "f">>, <<".", "i", "c", "o">>}

\* the characters of the file names, in the order of their bytes
Bytes == <<"-", ".", "/", "G", "J", "N", "P", "a", "b", "c", "d", "e", "f",
           "g", "i", "j", "m", "n", "o", "p", "r", "s", "t", "x">>

Byte(c) == CHOOSE i \in 1..Len(Bytes) : Bytes[i] = c

\* strings.ToLower
ToLower(s) ==
    [i \in 1..Len(s) |-> CASE s[i] = "G" -> "g"
                           [] s[i] = "J" -> "j"
                           [] s[i] = "N" -> "n"
                           [] s[i] = "P" -> "p"
                           [] OTHER -> s[i]]

\* a < b for strings
StringLess(a, b) ==
    \E i \in 1..Len(b) :
        /\ \A j \in 1..(i - 1) : j <= Len(a) /\ a[j] = b[j]
        /\ (i > Len(a) \/ Byte(a[i]) < Byte(b[i]))

\* sort.Strings, of the strings of a set
RECURSIVE SortStrings(_)
SortStrings(S) ==
    IF S = {} THEN <<>>
    ELSE LET m == CHOOSE m \in S : \A o \in S \ {m} : StringLess(m, o)
         IN  <<m>> \o SortStrings(S \ {m})

\* App.loadImagesFromPath: the image list and the index afterwards.  A
\* directory is a path with a file in it.
loadImagesFromPath(files, path, imgs, index) ==
    LET isDir == \E n \in DOMAIN files : Dir(n) = path
        isFile == path \in DOMAIN files
        dir == IF isDir THEN path ELSE Dir(path)
        found == SortStrings({n \in DOMAIN files :
                                 /\ Dir(n) = dir
                                 /\ ToLower(Ext(Base(n))) \in SupportedExtensions})
        hits == {i \in 1..Len(found) : found[i] = path}
    IN  IF ~isDir /\ ~isFile
        THEN [images |-> imgs, currentIndex |-> index]
        ELSE [images |-> found,
              currentIndex |-> IF ~isDir /\ hits # {}
                               THEN (CHOOSE i \in hits : TRUE) - 1
                               ELSE index]

\* App.GetCurrentPath
GetCurrentPath ==
    IF currentIndex < 0 \/ currentIndex >= Len(images) THEN <<>>
    ELSE images[currentIndex + 1]

\* App.DisplayImage(index) with the list imgs and the files of the disk:
\* Window.LoadImage loads the file into the viewer
DisplayImage(imgs, index, files) ==
    IF index < 0 \/ index >= Len(imgs)
    THEN UNCHANGED <<currentIndex, viewVars>>
    ELSE /\ currentIndex' = index
         /\ ViewerLoadImage(imgs[index + 1],
                            DecodedSize(files, imgs[index + 1]),
                            Decodes(files, imgs[index + 1]))

\* App.NextImage
NextImage ==
    IF currentIndex < Len(images) - 1
    THEN DisplayImage(images, currentIndex + 1, disk)
    ELSE UNCHANGED <<currentIndex, viewVars>>

\* App.PrevImage
PrevImage ==
    IF currentIndex > 0
    THEN DisplayImage(images, currentIndex - 1, disk)
    ELSE UNCHANGED <<currentIndex, viewVars>>

\* App.FirstImage
FirstImage == DisplayImage(images, 0, disk)

\* App.LastImage
LastImage == DisplayImage(images, Len(images) - 1, disk)

\* App.OpenPath, the callback of the file chooser
OpenPath(path) ==
    LET l == loadImagesFromPath(disk, path, images, currentIndex)
    IN  /\ images' = l.images
        /\ IF Len(l.images) > 0
           THEN DisplayImage(l.images, 0, disk)
           ELSE currentIndex' = l.currentIndex /\ UNCHANGED viewVars
        /\ UNCHANGED <<gSequence, isFullscreen, quit, errorDialog, editorVars,
                       fileVars>>

\* a DeleteCurrent that leaves the index where it was when the last image of
\* the list is deleted, which C39 rules out
DeleteCurrentKeepsIndex(confirmed, trashed) ==
    IF Len(images) = 0 \/ ~confirmed
    THEN UNCHANGED <<images, currentIndex, viewVars, fileVars, errorDialog>>
    ELSE LET path == images[currentIndex + 1]
             moved == MoveToTrash(disk, path, trashed)
         IN  /\ disk' = moved.files
             /\ UNCHANGED loaded
             /\ IF moved.err # ""
                THEN /\ ShowError("Failed to delete")
                     /\ UNCHANGED <<images, currentIndex, viewVars>>
                ELSE /\ images' = RemoveAt(images, currentIndex + 1)
                     /\ UNCHANGED errorDialog
                     /\ IF Len(images') = 0
                        THEN ViewerClear /\ UNCHANGED currentIndex
                        ELSE DisplayImage(images', currentIndex, disk')

\* App.DeleteCurrent with the answer to its confirmation, which is modal;
\* trashed is whether MoveToTrash succeeds
DeleteCurrent(confirmed, trashed) ==
    IF Len(images) = 0 \/ ~confirmed
    THEN UNCHANGED <<images, currentIndex, viewVars, fileVars, errorDialog>>
    ELSE LET path == images[currentIndex + 1]
             moved == MoveToTrash(disk, path, trashed)
         IN  /\ disk' = moved.files
             /\ UNCHANGED loaded
             /\ IF moved.err # ""
                THEN /\ ShowError("Failed to delete")
                     /\ UNCHANGED <<images, currentIndex, viewVars>>
                ELSE /\ images' = RemoveAt(images, currentIndex + 1)
                     /\ UNCHANGED errorDialog
                     /\ IF Len(images') = 0
                        THEN ViewerClear /\ UNCHANGED currentIndex
                        ELSE DisplayImage(images',
                                 IF currentIndex >= Len(images')
                                 THEN Len(images') - 1 ELSE currentIndex,
                                 disk')

\* App.RotateCurrent
RotateCurrent(clockwise) ==
    IF Len(images) = 0 THEN UNCHANGED vars ELSE Rotate(clockwise)

\* App.RenameCurrent with the name entered in its dialog, which is modal;
\* the empty name is a cancelled dialog
RenameCurrent(newName, ok) ==
    IF Len(images) = 0 \/ newName = <<>>
    THEN UNCHANGED <<images, fileVars, errorDialog>>
    ELSE LET path == images[currentIndex + 1]
             renamed == Rename(disk, path, newName, ok)
         IN  /\ disk' = renamed.files
             /\ UNCHANGED loaded
             /\ IF renamed.err # ""
                THEN ShowError("Failed to rename") /\ UNCHANGED images
                ELSE /\ images' = [images EXCEPT ![currentIndex + 1] =
                                                    renamed.path]
                     /\ UNCHANGED errorDialog

\* Window.EnterEditMode
WindowEnterEditMode ==
    IF GetCurrentPath = <<>> \/ viewer.originalBuf = Nil
    THEN UNCHANGED vars
    ELSE EditImage(GetCurrentPath, Deref(viewer.originalBuf))

\* the buttons of the header bar, which ToggleFullscreen hides: Edit calls
\* Window.EnterEditMode, Open calls Window.ShowFileChooser, whose dialog
\* passes the chosen path to App.OpenPath
EditClicked == ~isFullscreen /\ WindowEnterEditMode

OpenClicked(path) == ~isFullscreen /\ OpenPath(path)

\* the Cancel button of the editor's toolbar, onCancel being
\* Window.ExitEditMode
CancelClicked(discard) == ExitEditMode(discard)

\* Window.handleEditModeKeys; the save dialog of Ctrl+s is modal, and its
\* answer is part of the step
handleEditModeKeys(keyval, ctrl) ==
    CASE keyval = "Escape" -> \E discard \in BOOLEAN : ExitEditMode(discard)
      [] keyval = "c" -> setTool(ToolCrop)
      [] keyval = "p" -> setTool(ToolPen)
      [] keyval = "z" /\ ctrl -> Undo
      [] keyval \in {"y", "Z"} /\ ctrl -> Redo
      [] keyval = "s" /\ ctrl ->
            \E choice \in {"new", "original", "cancel"}, ok \in BOOLEAN :
               IF choice = "cancel" THEN UNCHANGED vars ELSE saveEdits(ok)
      [] OTHER -> UNCHANGED vars

\* the names entered in the rename dialog
NewNames == {<<>>, <<"c", ".", "p", "n", "g">>}

\* the view mode bindings of the key controller of setupKeybindings
ViewModeKeys(keyval, shift) ==
    CASE keyval \in {"h", "Left", "k", "Up"} ->
            /\ PrevImage
            /\ UNCHANGED <<images, gSequence, isFullscreen, quit, errorDialog,
                           editorVars, fileVars>>
      [] keyval \in {"l", "Right", "j", "Down"} ->
            /\ NextImage
            /\ UNCHANGED <<images, gSequence, isFullscreen, quit, errorDialog,
                           editorVars, fileVars>>
      [] keyval = "g" ->
            /\ IF gSequence
               THEN /\ FirstImage
                    /\ gSequence' = FALSE
               ELSE /\ gSequence' = TRUE
                    /\ UNCHANGED <<currentIndex, viewVars>>
            /\ UNCHANGED <<images, isFullscreen, quit, errorDialog, editorVars,
                           fileVars>>
      [] keyval = "G" ->
            /\ LastImage
            /\ gSequence' = FALSE
            /\ UNCHANGED <<images, isFullscreen, quit, errorDialog, editorVars,
                           fileVars>>
      [] keyval = "e" -> WindowEnterEditMode
      [] keyval = "f" ->
            /\ isFullscreen' = ~isFullscreen
            /\ UNCHANGED <<images, currentIndex, gSequence, quit, errorDialog,
                           viewVars, editorVars, fileVars>>
      [] keyval \in {"plus", "equal"} -> ZoomIn
      [] keyval = "minus" -> ZoomOut
      [] keyval = "0" -> ZoomFit
      [] keyval = "1" -> ZoomOriginal
      [] keyval = "r" -> RotateCurrent(~shift)
      [] keyval = "R" -> RotateCurrent(FALSE)
      [] keyval \in {"d", "Delete"} ->
            /\ \E confirmed \in BOOLEAN, trashed \in BOOLEAN :
                  DeleteCurrent(confirmed, trashed)
            /\ UNCHANGED <<gSequence, isFullscreen, quit, editorVars>>
      [] keyval \in {"i", "question"} -> UNCHANGED vars
      [] keyval = "F2" ->
            /\ \E newName \in NewNames, ok \in BOOLEAN :
                  RenameCurrent(newName, ok)
            /\ UNCHANGED <<currentIndex, gSequence, isFullscreen, quit,
                           viewVars, editorVars>>
      [] keyval \in {"q", "Escape"} ->
            /\ quit' = TRUE
            /\ UNCHANGED <<images, currentIndex, gSequence, isFullscreen,
                           errorDialog, viewVars, editorVars, fileVars>>
      [] OTHER ->
            /\ gSequence' = FALSE
            /\ UNCHANGED <<images, currentIndex, isFullscreen, quit,
                           errorDialog, viewVars, editorVars, fileVars>>

\* a key controller in which the keys that edit mode does not bind fall
\* through to the view mode bindings, which C26 rules out
KeyPressedFallsThrough(keyval, shift, ctrl) ==
    /\ ~quit
    /\ IF isEditMode
          /\ (keyval \in {"Escape", "c", "p"}
                \/ (ctrl /\ keyval \in {"z", "y", "Z", "s"}))
       THEN handleEditModeKeys(keyval, ctrl)
       ELSE ViewModeKeys(keyval, shift)

\* the key-pressed callback of setupKeybindings, while the application runs
KeyPressed(keyval, shift, ctrl) ==
    /\ ~quit
    /\ IF isEditMode
       THEN handleEditModeKeys(keyval, ctrl)
       ELSE ViewModeKeys(keyval, shift)

----------------------------------------------------------------------------
(* Specifications. *)

Colors     == {"#000000", "#FF0000"}
BrushSizes == {4, 6}
\* pointer positions while drawing
PenPositions == {Point(0, 0), Point(5, 5)}
\* pointer positions while drawing and erasing
StrokePositions == {Point(10, 10), Point(13, 14)}
HitPositions == StrokePositions \cup {Point(11, 11), Point(50, 50)}
\* pointer positions while selecting a crop
Corners    == {Point(0, 2), Point(4, 4)}
\* pointer positions of the pen and the eraser between crops
CornerStrokes == {Point(0, 2)}

\* the editor with the pen
NextPen ==
    \/ \E path \in ImagePaths, size \in ImageSizes : EnterEditMode(path, size)
    \/ setTool(ToolPen)
    \/ \E color \in Colors : SetBrushColor(color)
    \/ \E p \in PenPositions : Pressed(p.X, p.Y)
    \/ \E p \in PenPositions : Motion(p.X, p.Y)
    \/ \E p \in PenPositions : Released(p.X, p.Y)
    \/ Undo
    \/ Redo

SpecPen == Init /\ [][NextPen]_vars

\* the editor with the pen and the eraser, without undo and redo; the pen
\* is put down on the stroke positions only
NextHit ==
    /\ \/ \E path \in ImagePaths, size \in ImageSizes : EnterEditMode(path, size)
       \/ \E tool \in {ToolPen, ToolEraser} : setTool(tool)
       \/ \E size \in BrushSizes : SetBrushSize(size)
       \/ \E p \in HitPositions : Pressed(p.X, p.Y)
       \/ \E p \in HitPositions : Motion(p.X, p.Y)
       \/ \E p \in HitPositions : Released(p.X, p.Y)
    /\ currentStroke' # Nil =>
          \A i \in 1..Len(Deref(currentStroke').Points) :
              Deref(currentStroke').Points[i] \in StrokePositions

SpecHit == Init /\ [][NextHit]_vars

\* the editor with the pen, the eraser, undo and redo; the pointer does not
\* move while the pen is down, and the undo stack stays within its bound
NextErase ==
    /\ \/ \E path \in ImagePaths, size \in ImageSizes : EnterEditMode(path, size)
       \/ \E tool \in {ToolPen, ToolEraser} : setTool(tool)
       \/ \E p \in StrokePositions : Pressed(p.X, p.Y)
       \/ \E p \in StrokePositions : Motion(p.X, p.Y) /\ currentTool # ToolPen
       \/ \E p \in StrokePositions : Released(p.X, p.Y)
       \/ Undo
       \/ Redo
    /\ Len(undoStack') <= MaxActions

SpecErase == Init /\ [][NextErase]_vars

\* the same with pens of two colours
NextRedo ==
    /\ \/ /\ ~isEditMode
          /\ \E path \in ImagePaths, size \in ImageSizes :
                EnterEditMode(path, size)
       \/ \E tool \in {ToolPen, ToolEraser} : ~buttonDown /\ setTool(tool)
       \/ \E color \in Colors :
             ~buttonDown /\ currentTool = ToolPen /\ SetBrushColor(color)
       \/ \E p \in StrokePositions : Pressed(p.X, p.Y)
       \/ \E p \in StrokePositions : Released(p.X, p.Y)
       \/ Undo
       \/ Redo
    /\ Len(undoStack') + Len(redoStack') <= MaxActions

SpecRedo == Init /\ [][NextRedo]_vars

\* one edit session with the pen, the eraser and the crop tool; the tool is
\* chosen while the button is up, the pen and the eraser are put down on one
\* position, the pointer moves only while a crop is selected, and the two
\* history stacks are kept one entry below their bound
NextEdit ==
    /\ \/ \E path \in ImagePaths, size \in ImageSizes :
             EnterEditMode(path, size) /\ ~isEditMode
       \/ \E tool \in {ToolCrop, ToolPen, ToolEraser} :
             setTool(tool) /\ ~buttonDown
       \/ \E p \in Corners :
             Pressed(p.X, p.Y) /\ (currentTool = ToolCrop \/ p \in CornerStrokes)
       \/ \E p \in Corners : Motion(p.X, p.Y) /\ currentTool = ToolCrop
       \/ \E p \in Corners : Released(p.X, p.Y)
       \/ cancelCrop
       \/ applyCropToImage
       \/ Undo
       \/ Redo
    /\ Len(undoStack') + Len(redoStack') < MaxActions

SpecEdit == Init /\ [][NextEdit]_vars

\* the tool selection: the toggle buttons and the keys c and p, with the
\* brush settings, entering and leaving edit mode; the pointer button is
\* pressed with the crop tool only
NextTool ==
    \/ \E path \in ImagePaths, size \in ImageSizes : EnterEditMode(path, size)
    \/ \E discard \in BOOLEAN : ExitEditMode(discard)
    \/ ToggleCrop
    \/ TogglePen
    \/ \E tool \in {ToolCrop, ToolPen} : setTool(tool)
    \/ \E size \in BrushSizes : SetBrushSize(size)
    \/ \E color \in Colors : SetBrushColor(color)
    \/ \E p \in Corners : Pressed(p.X, p.Y) /\ currentTool = ToolCrop
    \/ \E p \in Corners : Released(p.X, p.Y)

SpecTool == Init /\ [][NextTool]_vars

\* a user who keeps entering edit mode and keeps using every input that
\* selects a tool: the two toggle buttons and the keys c and p
SpecToolFair ==
    /\ SpecTool
    /\ SF_vars(\E path \in ImagePaths, size \in ImageSizes :
                  EnterEditMode(path, size))
    /\ SF_vars(ToggleCrop)
    /\ SF_vars(TogglePen)
    /\ SF_vars(setTool(ToolCrop))
    /\ SF_vars(setTool(ToolPen))

\* images, drawing areas and selection corners for the crop; a corner may
\* lie outside the displayed image
CropImageSizes == {[W |-> 8, H |-> 4], [W |-> 3, H |-> 3]}
CropAreaSizes  == {[W |-> 8, H |-> 8], [W |-> 4, H |-> 8]}
CropCorners    == {Point(0, 0), Point(3, 5), Point(9, 9)}

\* the crop alone: selections on images and drawing areas of several
\* sizes, applied by the button and by the method ApplyCrop, undone and
\* redone; an image is loaded while no crop is on the stacks, which hold
\* two entries less than their bound
NextCrop ==
    /\ \/ \E path \in ImagePaths, size \in CropImageSizes :
             EnterEditMode(path, size) /\ undoStack = <<>> /\ redoStack = <<>>
       \/ \E size \in CropAreaSizes : Resize(size)
       \/ setTool(ToolCrop)
       \/ \E p \in CropCorners : Pressed(p.X, p.Y) /\ currentTool = ToolCrop
       \/ \E p \in CropCorners : Motion(p.X, p.Y) /\ isCropping
       \/ \E p \in CropCorners : Released(p.X, p.Y)
       \/ applyCropToImage
       \/ ApplyCrop
       \/ Undo
       \/ Redo
    /\ Len(undoStack') + Len(redoStack') < MaxActions - 1

SpecCrop == Init /\ [][NextCrop]_vars

\* images that are edited one after the other
LoadPaths == ImagePaths \cup {<<"/", "a", "/", "c", ".", "j", "p", "g">>}

\* editing, saving and loading again: the pen on one position, undo and
\* redo, the save callback, leaving and entering edit mode; the history
\* stacks are kept one entry below their bound
NextLoad ==
    /\ \/ /\ errorDialog = ""
          /\ \/ \E path \in LoadPaths, size \in ImageSizes :
                   EnterEditMode(path, size)
             \/ \E discard \in BOOLEAN : ExitEditMode(discard)
             \/ \E ok \in BOOLEAN : saveEdits(ok)
             \/ setTool(ToolPen)
             \/ \E p \in CornerStrokes : Pressed(p.X, p.Y)
             \/ \E p \in CornerStrokes : Released(p.X, p.Y)
             \/ Undo
             \/ Redo
       \/ CloseError
    /\ Len(undoStack') + Len(redoStack') < MaxActions

SpecLoad == Init /\ [][NextLoad]_vars

\* images with sidecars: two images of one directory with the same name up
\* to the extension, and one in the root directory
FilePaths == {<<"/", "d", "/", "a", ".", "j">>, <<"/", "d", "/", "a", ".", "p">>,
              <<"/", "b", ".", "j">>}

FileCrops == {Nil, Ptr([X |-> 0, Y |-> 1, Width |-> 2, Height |-> 1,
                        Ratio |-> ""])}

FileStrokes == {<<>>,
                <<[Tool |-> "pen", Color |-> "#FF0000", BrushSize |-> 5,
                   Points |-> <<Point(0, 0), Point(5, 5)>>]>>}

\* the sessions that are saved
FileSessions ==
    {[Version |-> "1.0", ImagePath |-> path, Crop |-> crop,
      Strokes |-> strokes, HistoryPos |-> pos] :
        path \in FilePaths, crop \in FileCrops, strokes \in FileStrokes,
        pos \in {0, 1}}

\* what another program leaves in a sidecar
OtherContents == {Garbage, Mistyped, Unreadable, JsonFile(NoKeys),
                  JsonFile("version" :> "1.0")}

\* the sidecar functions alone, on files other programs write too
NextFile ==
    \/ \E s \in FileSessions, ok \in BOOLEAN : SaveSession(s, ok)
    \/ \E path \in FilePaths : LoadSession(path)
    \/ \E path \in FilePaths, content \in OtherContents :
          OtherWrite(SessionFileName(path), content)

SpecFile == Init /\ [][NextFile]_vars

\* The viewer of either version: its methods in any order, on one image
\* that loads or fails to load.
InitView ==
    /\ isEditMode = FALSE
    /\ currentTool = ToolNone
    /\ brushSize = DefaultBrushSize
    /\ brushColor = DefaultBrushColor
    /\ isDrawing = FALSE
    /\ currentPath = <<>>
    /\ originalBuf = Nil
    /\ preCropBuf = Nil
    /\ postCropBuf = Nil
    /\ session = Nil
    /\ currentStroke = Nil
    /\ undoStack = <<>>
    /\ redoStack = <<>>
    /\ cropStart = Point(0, 0)
    /\ cropEnd = Point(0, 0)
    /\ isCropping = FALSE
    /\ cropActive = FALSE
    /\ drawArea \in AreaSizes
    /\ cropBtn = FALSE
    /\ penBtn = FALSE
    /\ disk = NoFiles
    /\ loaded = NoCall
    /\ viewer \in {NewViewer, NewViewerNoFitMode}
    /\ picture = NewPicture
    /\ zoomSteps = 0
    /\ images = <<>>
    /\ currentIndex = 0
    /\ gSequence = FALSE
    /\ isFullscreen = FALSE
    /\ quit = FALSE
    /\ errorDialog = ""
    /\ buttonDown = FALSE
    /\ hist = <<>>

NextView ==
    \/ \E path \in ImagePaths, size \in ImageSizes, ok \in BOOLEAN :
          LoadImage(path, size, ok)
    \/ \E clockwise \in BOOLEAN : Rotate(clockwise)
    \/ ZoomIn
    \/ ZoomOut
    \/ ZoomFit
    \/ ZoomOriginal
    \/ Clear

SpecView == InitView /\ [][NextView]_vars

\* the brush settings with the pen: the size and the colour change at any
\* time, also while the pen is down; the two history stacks are kept one
\* entry below their bound
NextBrush ==
    /\ \/ \E path \in ImagePaths, size \in ImageSizes :
             EnterEditMode(path, size) /\ ~isEditMode
       \/ setTool(ToolPen) /\ ~buttonDown
       \/ \E size \in BrushSizes : SetBrushSize(size)
       \/ \E color \in Colors : SetBrushColor(color)
       \/ \E p \in CornerStrokes : Pressed(p.X, p.Y)
       \/ \E p \in CornerStrokes : Motion(p.X, p.Y)
       \/ \E p \in CornerStrokes : Released(p.X, p.Y)
       \/ Undo
       \/ Redo
    /\ Len(undoStack') + Len(redoStack') < MaxActions

SpecBrush == Init /\ [][NextBrush]_vars

\* the window with its keys: the program is started without a path, on a
\* disk with an image, a file that is called one and a text file, and a
\* file is opened
Directory ==
    (<<"/", "a", "/", "b", ".", "j", "p", "g">> :>
            ImageFile([W |-> 8, H |-> 4]))
        @@ (<<"/", "a", "/", "a", ".", "P", "N", "G">> :> Garbage)
        @@ (<<"/", "a", "/", "n", ".", "t", "x", "t">> :> Garbage)

\* the key values of the bindings, and one without a binding
Keys == {"h", "Left", "k", "Up", "l", "Right", "j", "Down", "g", "G", "e",
         "f", "plus", "equal", "minus", "0", "1", "r", "R", "d", "Delete",
         "i", "question", "F2", "q", "Escape", "c", "p", "z", "y", "Z", "s",
         "x"}

InitKeys ==
    /\ isEditMode = FALSE
    /\ currentTool = ToolNone
    /\ brushSize = DefaultBrushSize
    /\ brushColor = DefaultBrushColor
    /\ isDrawing = FALSE
    /\ currentPath = <<>>
    /\ originalBuf = Nil
    /\ preCropBuf = Nil
    /\ postCropBuf = Nil
    /\ session = Nil
    /\ currentStroke = Nil
    /\ undoStack = <<>>
    /\ redoStack = <<>>
    /\ cropStart = Point(0, 0)
    /\ cropEnd = Point(0, 0)
    /\ isCropping = FALSE
    /\ cropActive = FALSE
    /\ drawArea \in AreaSizes
    /\ cropBtn = FALSE
    /\ penBtn = FALSE
    /\ disk = Directory
    /\ loaded = NoCall
    /\ viewer = NewViewer
    /\ picture = NewPicture
    /\ zoomSteps = 0
    /\ images = <<>>
    /\ currentIndex = 0
    /\ gSequence = FALSE
    /\ isFullscreen = FALSE
    /\ quit = FALSE
    /\ errorDialog = ""
    /\ buttonDown = FALSE
    /\ hist = <<>>

\* how many settings of the window are away from what they are when a file
\* has been opened: the rotation, the zoom, the full screen, a pending g,
\* the files of the disk, the edits
Away ==
    (IF viewer.rotation # 0 THEN 1 ELSE 0)
        + (IF zoomSteps # 0 \/ ~viewer.fitMode THEN 1 ELSE 0)
        + (IF isFullscreen THEN 1 ELSE 0)
        + (IF gSequence THEN 1 ELSE 0)
        + (IF DOMAIN disk # DOMAIN Directory THEN 1 ELSE 0)
        + (IF undoStack # <<>> \/ redoStack # <<>> \/ buttonDown
           THEN 1 ELSE 0)

\* a file is opened once, and the keys are pressed until the editor has
\* been left for the first time; the pen makes one stroke at a time; the
\* dialog of ShowError is modal, so it is closed before the next input
NextKeys ==
    /\ ~quit
    /\ \/ /\ errorDialog = ""
          /\ \/ images = <<>> /\ \E path \in DOMAIN Directory : OpenPath(path)
             \/ /\ isEditMode \/ session = Nil
                /\ \E keyval \in Keys, shift \in BOOLEAN, ctrl \in BOOLEAN :
                      ~(shift /\ ctrl) /\ KeyPressed(keyval, shift, ctrl)
             \/ \E p \in CornerStrokes : Pressed(p.X, p.Y)
             \/ \E p \in CornerStrokes : Released(p.X, p.Y)
       \/ CloseError
    /\ zoomSteps' <= MaxKeyZooms
    /\ Len(undoStack') + Len(redoStack') <= 1
    /\ Away' <= MaxAway

SpecKeys == InitKeys /\ [][NextKeys]_vars

\* the same with the buttons of the header bar and the Cancel button of the
\* editor
NextWindow ==
    \/ NextKeys
    \/ /\ ~quit
       /\ errorDialog = ""
       /\ \/ EditClicked
          \/ \E path \in DOMAIN Directory : OpenClicked(path)
          \/ \E discard \in BOOLEAN : CancelClicked(discard)
       /\ zoomSteps' <= MaxKeyZooms
       /\ Len(undoStack') + Len(redoStack') <= 1
       /\ Away' <= MaxAway

SpecWindow == InitKeys /\ [][NextWindow]_vars

----------------------------------------------------------------------------
(* Notions the properties below are stated in. *)

Sess    == Deref(session)
Strokes == IF session = Nil THEN <<>> ELSE Sess.Strokes
HEntry(k) == hist[Len(hist) - k]        \* the k-th entry from the end, from 0
LastOp  == IF hist = <<>> THEN "" ELSE HEntry(0).op

\* hist ends with n new actions of one type followed by n undos
RunUndone(n, type) ==
    /\ Len(hist) >= 2 * n
    /\ \A i \in 0..(n - 1) : HEntry(i).op = "undo"
    /\ \A i \in n..(2 * n - 1) : HEntry(i).op = type

\* hist ends with the undo and the redo of an action of the type
UndoneRedone(type) ==
    /\ Len(hist) >= 2
    /\ HEntry(0).op = "redo" /\ HEntry(0).type = type
    /\ HEntry(1).op = "undo" /\ HEntry(1).type = type

----------------------------------------------------------------------------
(* C1: every step that records a new edit action (the release that commits *)
(* a pen stroke, an eraser pass that removes strokes, Apply Crop) leaves    *)
(* the redo stack empty, and a Redo that follows it changes nothing.        *)

PenCommit ==
    /\ currentTool = ToolPen /\ currentStroke # Nil
    /\ \E p \in Corners : Released(p.X, p.Y)

EraserRemoval ==
    /\ currentTool = ToolEraser
    /\ \E p \in Corners : Pressed(p.X, p.Y) \/ Motion(p.X, p.Y)
    /\ Len(undoStack') > Len(undoStack)

CropApplied == applyCropToImage /\ Len(undoStack') > Len(undoStack)

C1_NewActionClearsRedo ==
    [][/\ (PenCommit \/ EraserRemoval \/ CropApplied) => redoStack' = <<>>
       /\ (IsPush(LastOp) /\ Redo) =>
              UNCHANGED <<session, undoStack, redoStack, bufVars>>]_vars

\* an eraser removal has just emptied a redo stack that held an entry
C1_Witness ==
    /\ LastOp = "erase" /\ HEntry(0).nredo > 0
    /\ redoStack = <<>>

(* C2: whenever the top of the undo stack is a 'stroke' action, the last   *)
(* stroke of the session is the stroke of that action.                      *)
C2_StrokeOnTopIsLast ==
    (session # Nil /\ undoStack # <<>>
        /\ undoStack[Len(undoStack)].Type = "stroke") =>
    /\ Strokes # <<>>
    /\ Strokes[Len(Strokes)] = undoStack[Len(undoStack)].Data.Stroke

(* C3: n committed pen strokes followed by n undos leave the stroke list   *)
(* the sequence it was before the first of the n strokes.                   *)
C3_StrokesUndone ==
    \A n \in 1..HistWin :
        RunUndone(n, "stroke") => Strokes = HEntry(2 * n - 1).sess.Strokes

\* two strokes drawn on top of a first one, and both undone
C3_Witness ==
    /\ RunUndone(2, "stroke")
    /\ Len(Strokes) = 1
    /\ HEntry(1).sess.Strokes[3] # Strokes[1]

(* C4: in a new session, after one pen stroke HasEdits is true, after the  *)
(* Undo it is false, after the Redo the stroke list holds exactly that      *)
(* stroke; HasEdits is true exactly when there is a crop or a stroke.       *)
FirstStroke ==
    /\ hist # <<>>
    /\ hist[1].op = "stroke"
    /\ hist[1].sess = NewEditSession(currentPath)

C4_StrokeUndoRedo ==
    /\ (Len(hist) = 1 /\ FirstStroke) => HasEdits(Sess)
    /\ (Len(hist) = 2 /\ FirstStroke /\ hist[2].op = "undo") => ~HasEdits(Sess)
    /\ (Len(hist) = 3 /\ FirstStroke /\ hist[2].op = "undo"
            /\ hist[3].op = "redo") =>
          /\ Len(Strokes) = 1
          /\ Strokes = hist[2].sess.Strokes
          /\ Strokes[1].Tool = "pen"
    /\ session # Nil =>
          (HasEdits(Sess) <=> (Sess.Crop # Nil \/ Strokes # <<>>))

\* the red stroke from (0,0) to (5,5) of size 5, drawn, undone and redone
C4_Witness ==
    /\ Len(hist) = 3 /\ FirstStroke
    /\ hist[2].op = "undo" /\ hist[3].op = "redo"
    /\ Strokes = <<[Tool |-> "pen", Color |-> "#FF0000", BrushSize |-> 5,
                    Points |-> <<Point(0, 0), Point(5, 5)>>]>>

(* C5: with the crop of an Apply Crop in the session, Undo followed by     *)
(* Redo leaves the session with that crop again, and HasEdits as it was.    *)
C5_CropUndoRedo ==
    (UndoneRedone("crop") /\ HEntry(1).sess.Crop # Nil) =>
    /\ Sess.Crop = HEntry(1).sess.Crop
    /\ HasEdits(Sess) = HasEdits(HEntry(1).sess)

(* C6: with an 'erase' action on top of the undo stack, Undo followed by   *)
(* Redo leaves the stroke list as it was before the Undo.                   *)
C6_EraseUndoRedo ==
    UndoneRedone("erase") => Strokes = HEntry(1).sess.Strokes

(* C7: k Apply Crops followed by k Undos leave the image buffer the one    *)
(* that was current before the first of them, and the session without crop. *)
C7_CropsUndone ==
    \A k \in 1..HistWin :
        RunUndone(k, "crop") =>
            /\ originalBuf = HEntry(2 * k - 1).buf
            /\ Sess.Crop = Nil

(* C8: Undo with an empty undo stack and Redo with an empty redo stack     *)
(* change neither the session, nor the stacks, nor the image buffers, nor   *)
(* the crop selection.                                                      *)
C8_EmptyStacksNoOp ==
    [][((Undo /\ undoStack = <<>>) \/ (Redo /\ redoStack = <<>>)) =>
          UNCHANGED <<session, undoStack, redoStack, bufVars, cropVars>>]_vars

\* both stacks are empty while a crop selection is active
C8_Witness ==
    /\ isEditMode /\ undoStack = <<>> /\ redoStack = <<>>
    /\ cropActive /\ cropStart # cropEnd

(* C9: with the pen, a press starts a stroke of tool 'pen' with the brush  *)
(* colour and size and the one point; a move while the stroke is in         *)
(* progress appends its point; until the release the session and the        *)
(* history are unchanged; the release appends the stroke to the session,    *)
(* pushes one 'stroke' entry carrying it and leaves no stroke in progress.  *)
C9_PenGesture ==
    [][\A p \in PenPositions :
        /\ (currentTool = ToolPen /\ Pressed(p.X, p.Y)) =>
              /\ currentStroke' = Ptr([Tool |-> "pen", Color |-> brushColor,
                                       BrushSize |-> brushSize,
                                       Points |-> <<p>>])
              /\ UNCHANGED <<session, undoStack, redoStack>>
        /\ (currentTool = ToolPen /\ buttonDown /\ currentStroke # Nil
                /\ Motion(p.X, p.Y)) =>
              /\ currentStroke' = Ptr([Deref(currentStroke) EXCEPT
                                        !.Points = @ \o <<p>>])
              /\ UNCHANGED <<session, undoStack, redoStack>>
        /\ (currentTool = ToolPen /\ currentStroke # Nil
                /\ Released(p.X, p.Y)) =>
              /\ Strokes' = Append(Strokes, Deref(currentStroke))
              /\ undoStack' = undoStack \o
                    <<[Type |-> "stroke",
                       Data |-> [Kind |-> "Stroke",
                                 Stroke |-> Deref(currentStroke)]]>>
              /\ currentStroke' = Nil
      ]_vars

\* a red stroke of two points has been committed
C9_Witness ==
    /\ LastOp = "stroke" /\ currentStroke = Nil /\ undoStack # <<>>
    /\ Strokes # <<>>
    /\ Strokes[Len(Strokes)].Color = "#FF0000"
    /\ Len(Strokes[Len(Strokes)].Points) = 2
    /\ undoStack[Len(undoStack)].Data.Stroke = Strokes[Len(Strokes)]

(* C10: a press or a move of the eraser at p removes exactly the strokes   *)
(* that have a point q with |q-p|^2 < (brushSize/2 + s.brushSize/2)^2; the  *)
(* others stay, in their order.                                             *)
Touched(s, p, size) ==
    \E k \in 1..Len(s.Points) :
        LET q == s.Points[k]
        IN  (2 * (q.X - p.X)) * (2 * (q.X - p.X))
              + (2 * (q.Y - p.Y)) * (2 * (q.Y - p.Y))
            < (size + s.BrushSize) * (size + s.BrushSize)

Untouched(strokes, p, size) ==
    SelectSeq(strokes, LAMBDA s : ~Touched(s, p, size))

C10_EraserHitTest ==
    [][\A p \in HitPositions :
        (currentTool = ToolEraser
            /\ (Pressed(p.X, p.Y) \/ (isDrawing /\ Motion(p.X, p.Y)))) =>
        Strokes' = Untouched(Strokes, p, brushSize)]_vars

\* an eraser of radius 3 has removed the stroke of size 4 at (10,10) and
\* left the stroke of size 4 at (13,14), which lies at distance 5
C10_Witness ==
    /\ LastOp = "erase" /\ brushSize = 6
    /\ HEntry(0).sess.Strokes =
          <<[Tool |-> "pen", Color |-> "#000000", BrushSize |-> 4,
             Points |-> <<Point(10, 10)>>],
            [Tool |-> "pen", Color |-> "#000000", BrushSize |-> 4,
             Points |-> <<Point(13, 14)>>]>>
    /\ Strokes = <<HEntry(0).sess.Strokes[2]>>

(* C11: an eraser pass that matches k strokes appends k 'erase' entries   *)
(* to the undo stack, one per matched stroke with that stroke as payload,   *)
(* from the highest matched index down to the lowest, and removes exactly   *)
(* the matched strokes.                                                     *)
MatchedIndices(strokes, p, size) ==
    SelectSeq([i \in 1..Len(strokes) |-> i],
              LAMBDA i : Touched(strokes[i], p, size))

ErasePushes(strokes, matched) ==
    [j \in 1..Len(matched) |->
        [Type |-> "erase",
         Data |-> [Kind |-> "Stroke",
                   Stroke |-> strokes[matched[Len(matched) + 1 - j]]]]]

C11_ErasePass ==
    [][\A p \in HitPositions :
        (currentTool = ToolEraser
            /\ (Pressed(p.X, p.Y) \/ (isDrawing /\ Motion(p.X, p.Y)))) =>
        /\ undoStack' = undoStack \o
              ErasePushes(Strokes, MatchedIndices(Strokes, p, brushSize))
        /\ Strokes' = Untouched(Strokes, p, brushSize)]_vars

\* one pass has removed the first two of three strokes, the second before
\* the first, and has left the third
C11_Witness ==
    /\ Len(hist) >= 2 /\ HEntry(0).op = "erase" /\ HEntry(1).op = "erase"
    /\ Len(HEntry(1).sess.Strokes) = 3
    /\ HEntry(0).sess.Strokes =
          <<HEntry(1).sess.Strokes[1], HEntry(1).sess.Strokes[3]>>
    /\ Strokes = <<HEntry(1).sess.Strokes[3]>>
    /\ Len(undoStack) >= 2
    /\ undoStack[Len(undoStack) - 1].Data.Stroke = HEntry(1).sess.Strokes[2]
    /\ undoStack[Len(undoStack)].Data.Stroke = HEntry(1).sess.Strokes[1]
    /\ HEntry(1).sess.Strokes[2] # HEntry(1).sess.Strokes[3]

(* C12: the tool is one of None, Crop, Pen, Eraser; every selection of    *)
(* Crop or of Pen, by its toggle button or by its key, makes it the tool    *)
(* when it was not, and makes None the tool when it was.                    *)
SelectsCrop == ToggleCrop \/ setTool(ToolCrop)
SelectsPen  == TogglePen \/ setTool(ToolPen)

C12_RadioTools ==
    [][/\ currentTool' \in Tool
       /\ SelectsCrop =>
             currentTool' = IF currentTool = ToolCrop THEN ToolNone
                            ELSE ToolCrop
       /\ SelectsPen =>
             currentTool' = IF currentTool = ToolPen THEN ToolNone
                            ELSE ToolPen]_vars

(* C13: with the crop tool, a press, a move and a release change the      *)
(* selection and its flags only; Cancel puts the rectangle at zero and      *)
(* clears the active flag; neither changes the session, the history stacks  *)
(* or the image buffers, and Apply Crop without an active selection changes *)
(* nothing.                                                                 *)
CropGesture ==
    /\ currentTool = ToolCrop
    /\ \E p \in Corners :
          Pressed(p.X, p.Y) \/ Motion(p.X, p.Y) \/ Released(p.X, p.Y)

C13_CropSelectionOnly ==
    [][/\ CropGesture =>
             UNCHANGED <<session, stackVars, bufVars, toolVars, penVars>>
       /\ cancelCrop =>
             /\ cropStart' = Point(0, 0) /\ cropEnd' = Point(0, 0)
             /\ ~cropActive'
             /\ UNCHANGED <<session, stackVars, bufVars>>
       /\ (applyCropToImage /\ ~cropActive) =>
             UNCHANGED <<session, stackVars, bufVars, cropVars>>]_vars

\* a rectangle has been selected over a session that holds a stroke
C13_Witness ==
    /\ currentTool = ToolCrop /\ cropActive /\ ~isCropping
    /\ cropStart = Point(0, 2) /\ cropEnd = Point(4, 4)
    /\ Strokes # <<>> /\ undoStack # <<>>

(* C14: Apply Crop on an active selection of zero width or zero height    *)
(* changes neither the session nor the undo stack nor the redo stack.       *)
C14_DegenerateCropAborts ==
    [][(applyCropToImage /\ cropActive
            /\ (cropStart.X = cropEnd.X \/ cropStart.Y = cropEnd.Y)) =>
       UNCHANGED <<session, undoStack, redoStack>>]_vars

(* C15: the crop of the session is absent or a rectangle with x >= 0,     *)
(* y >= 0, width >= 1, height >= 1, x + width <= image width and            *)
(* y + height <= image height, for the image it was applied to.             *)
WellFormed(c, w, h) ==
    /\ c.X >= 0 /\ c.Y >= 0 /\ c.Width >= 1 /\ c.Height >= 1
    /\ c.X + c.Width <= w /\ c.Y + c.Height <= h

C15_CropWithinImage ==
    /\ (LastOp = "crop" /\ Sess.Crop # Nil) =>
          WellFormed(Deref(Sess.Crop), Deref(HEntry(0).buf).W,
                     Deref(HEntry(0).buf).H)
    /\ (session # Nil /\ Sess.Crop # Nil) =>
          \E size \in CropImageSizes :
              WellFormed(Deref(Sess.Crop), size.W, size.H)

(* C16: entering edit mode on an image leaves a session for that image    *)
(* with version "1.0", no crop, no strokes and historyPos 0, whatever its   *)
(* sidecar holds, both history stacks empty and no stroke in progress.      *)
C16_LoadStartsFresh ==
    [][\A path \in LoadPaths, size \in ImageSizes :
        EnterEditMode(path, size) =>
        /\ session' = Ptr([Version |-> "1.0", ImagePath |-> path,
                           Crop |-> Nil, Strokes |-> <<>>, HistoryPos |-> 0])
        /\ undoStack' = <<>> /\ redoStack' = <<>>
        /\ currentStroke' = Nil]_vars

\* an image whose sidecar holds strokes has been loaded over a session with
\* edits and a redo stack with entries
C16_Witness ==
    /\ LastOp = "load" /\ HEntry(0).type = "edited" /\ HEntry(0).nredo > 0
    /\ SessionFileName(currentPath) \in DOMAIN disk
    /\ "strokes" \in DOMAIN disk[SessionFileName(currentPath)].doc
    /\ ~HasEdits(Sess) /\ undoStack = <<>> /\ redoStack = <<>>

(* C17: a session that SaveEditSession has written is the session that    *)
(* LoadEditSession then returns for its image path, field by field; the     *)
(* saved object has a crop key exactly when the session has a crop and a    *)
(* strokes key exactly when it has strokes.                                 *)
C17_SaveLoadRoundTrip ==
    /\ (loaded.op = "save" /\ loaded.err = "") =>
          LET s    == Deref(loaded.session)
              file == disk[SessionFileName(loaded.path)]
          IN  /\ file.kind = "json"
              /\ ("crop" \in DOMAIN file.doc) = (s.Crop # Nil)
              /\ ("strokes" \in DOMAIN file.doc) = (s.Strokes # <<>>)
    /\ (/\ loaded.op = "load"
        /\ loaded.after.op = "save" /\ loaded.after.err = ""
        /\ loaded.after.path = loaded.path) =>
          /\ loaded.err = ""
          /\ loaded.session = loaded.after.session

\* a session with a crop and a stroke has been saved and loaded, beside the
\* sidecar of a session without either
C17_Witness ==
    /\ loaded.op = "load" /\ loaded.err = ""
    /\ loaded.after.op = "save" /\ loaded.after.err = ""
    /\ loaded.after.path = loaded.path
    /\ Deref(loaded.session).Crop # Nil
    /\ Deref(loaded.session).Strokes # <<>>
    /\ \E f \in DOMAIN disk :
          disk[f].kind = "json" /\ DOMAIN disk[f].doc =
              {"version", "image_path", "history_pos"}

(* C18: LoadEditSession for an image without a sidecar returns no error    *)
(* and a session with version "1.0", the image path, no crop, no strokes    *)
(* and historyPos 0.                                                        *)
C18_LoadWithoutSidecar ==
    (loaded.op = "load" /\ SessionFileName(loaded.path) \notin DOMAIN disk) =>
        /\ loaded.err = ""
        /\ loaded.session =
              Ptr([Version |-> "1.0", ImagePath |-> loaded.path,
                   Crop |-> Nil, Strokes |-> <<>>, HistoryPos |-> 0])

\* a session has been loaded for an image without a sidecar, beside the
\* sidecar of another image
C18_Witness ==
    /\ loaded.op = "load" /\ loaded.err = ""
    /\ SessionFileName(loaded.path) \notin DOMAIN disk
    /\ disk # NoFiles

(* C19: when the sidecar exists and is not an object with the keys         *)
(* version, image_path and history_pos of the sidecar format, or cannot be  *)
(* read, LoadEditSession returns an error and no session.                   *)
ValidSidecar(file) ==
    /\ file.kind = "json"
    /\ {"version", "image_path", "history_pos"} \subseteq DOMAIN file.doc

C19_InvalidSidecarFails ==
    (/\ loaded.op = "load"
     /\ SessionFileName(loaded.path) \in DOMAIN disk
     /\ ~ValidSidecar(disk[SessionFileName(loaded.path)])) =>
        /\ loaded.err # ""
        /\ loaded.session = Nil

(* C20: every sidecar belongs to one image: no two image paths have the    *)
(* same sidecar path; and the sidecar of /d/a.j is /d/.a.frame-edits.json.  *)
C20_SidecarPerImage ==
    /\ \A f \in DOMAIN disk :
          Cardinality({p \in FilePaths : SessionFileName(p) = f}) <= 1
    /\ SessionFileName(<<"/", "d", "/", "a", ".", "j">>) =
          <<"/", "d", "/", ".", "a">> \o FrameEdits

(* C21: the zoom level of the viewer is at least 0.1 and at most 10.0      *)
(* after any sequence of ZoomIn, ZoomOut, ZoomFit, ZoomOriginal, Rotate,    *)
(* LoadImage and Clear; a ZoomIn at 10.0 leaves it 10.0 and a ZoomOut at    *)
(* 0.1 leaves it 0.1.                                                       *)
C21_ZoomWithinBounds ==
    /\ [](/\ ~FLess(viewer.zoomLevel, MinZoom)
          /\ ~FLess(MaxZoom, viewer.zoomLevel))
    /\ [][/\ (ZoomIn /\ viewer.zoomLevel = MaxZoom) =>
                viewer'.zoomLevel = MaxZoom
          /\ (ZoomOut /\ viewer.zoomLevel = MinZoom) =>
                viewer'.zoomLevel = MinZoom]_vars

\* ZoomIn has been called with the zoom level at 10.0, in a rotated view
C21_Witness ==
    /\ viewer.zoomLevel = MaxZoom
    /\ zoomSteps = MaxZoomSteps
    /\ viewer.rotation = 90
    /\ viewer.originalBuf # Nil

\* the viewer fits the image to the window
InFitMode ==
    IF HasFitMode(viewer) THEN viewer.fitMode
    ELSE picture.contentFit = ContentFitContain

(* C22: outside fit mode ZoomIn multiplies the zoom level by 1.1 and        *)
(* ZoomOut divides it by 1.1, up to the bounds, so that a ZoomIn and then   *)
(* a ZoomOut, neither at a bound, give the zoom level there was; in fit     *)
(* mode they leave fit mode and give 1.0 * 1.1 and 1.0 / 1.1.               *)
C22_ZoomStepsInverse ==
    /\ [](~InFitMode /\ FMul(viewer.zoomLevel, ZoomStep) = Enlarged(viewer.zoomLevel)
            => Reduced(viewer, Enlarged(viewer.zoomLevel)) = viewer.zoomLevel)
    /\ [][LET from == IF InFitMode THEN One ELSE viewer.zoomLevel
          IN  /\ ZoomIn => /\ viewer'.zoomLevel
                                \in {FMul(from, ZoomStep), MaxZoom}
                           /\ ~InFitMode'
              /\ ZoomOut => /\ viewer'.zoomLevel
                                \in {FDiv(from, ZoomStep), MinZoom}
                            /\ ~InFitMode']_vars

(* C23: the rotation of the viewer is 0, 90, 180 or 270; a clockwise turn   *)
(* and then a counter-clockwise one, or four turns one way, give the        *)
(* rotation there was; Rotate changes neither the zoom level nor fit mode,  *)
(* the zoom operations do not change the rotation, and LoadImage makes the  *)
(* rotation 0.                                                              *)
C23_RotationIndependent ==
    /\ [](/\ viewer.rotation \in {0, 90, 180, 270}
          /\ \A cw \in BOOLEAN :
                /\ Turned(Turned(viewer.rotation, cw), ~cw) = viewer.rotation
                /\ Turned(Turned(Turned(Turned(viewer.rotation, cw), cw), cw),
                          cw) = viewer.rotation)
    /\ [][/\ (\E cw \in BOOLEAN : Rotate(cw)) =>
                /\ viewer'.zoomLevel = viewer.zoomLevel
                /\ InFitMode' = InFitMode
                /\ viewer'.rotation # viewer.rotation
          /\ (ZoomIn \/ ZoomOut \/ ZoomFit \/ ZoomOriginal) =>
                viewer'.rotation = viewer.rotation
          /\ (\E path \in ImagePaths, size \in ImageSizes, ok \in BOOLEAN :
                 LoadImage(path, size, ok)) => viewer'.rotation = 0]_vars

\* a zoomed image has been turned three times and is not in fit mode
C23_Witness ==
    /\ viewer.rotation = 270
    /\ viewer.originalBuf # Nil
    /\ viewer.zoomLevel # One
    /\ ~InFitMode
    /\ picture.paintable # Nil /\ Deref(picture.paintable).Rotation = 270

(* C24: a change of the brush size or of the brush colour changes no      *)
(* stroke of the session, not the stroke in progress, not the undo stack    *)
(* and not the redo stack.                                                  *)
C24_BrushNotInHistory ==
    [][((\E size \in BrushSizes : SetBrushSize(size))
            \/ (\E color \in Colors : SetBrushColor(color))) =>
       UNCHANGED <<session, currentStroke, undoStack, redoStack>>]_vars

\* the size and the colour have changed since the pen was put down, with a
\* stroke in the session and one that was undone
C24_Witness ==
    /\ currentStroke # Nil
    /\ Deref(currentStroke).Color # brushColor
    /\ Deref(currentStroke).BrushSize # brushSize
    /\ session # Nil /\ Len(Deref(session).Strokes) > 0
    /\ Deref(session).Strokes[1].Color # brushColor
    /\ redoStack # <<>>

C26_EditModeKeysOnly ==
    [][(isEditMode /\ \E keyval \in Keys, shift \in BOOLEAN, ctrl \in BOOLEAN :
                         KeyPressed(keyval, shift, ctrl)) =>
       /\ UNCHANGED <<images, currentIndex, viewVars, gSequence,
                      isFullscreen, quit>>
       /\ \A n \in DOMAIN disk :
             disk[n].kind # "json" => n \in DOMAIN disk' /\ disk'[n] = disk[n]
       /\ \A n \in DOMAIN disk' : n \notin DOMAIN disk => disk'[n].kind = "json"]_vars

\* in edit mode on the second image of the list, the key p has chosen the
\* pen and Ctrl+z has undone a stroke
C26_Witness ==
    /\ isEditMode
    /\ Len(images) = 2 /\ currentIndex = 1
    /\ currentTool = ToolPen
    /\ redoStack # <<>>
    /\ session # Nil /\ Deref(session).ImagePath = images[2]

(* C27: the session's HistoryPos is the number of its strokes, in every    *)
(* state that pen strokes, eraser removals, Undo and Redo lead to.          *)
C27_HistoryPosIsStrokeCount ==
    session # Nil => Deref(session).HistoryPos = Len(Deref(session).Strokes)

\* the number of entries of a type in a history stack
Entries(stack, type) ==
    Cardinality({i \in 1..Len(stack) : stack[i].Type = type})

(* C28: the session has as many strokes as the undo stack has "stroke"     *)
(* entries more than "erase" entries, in every state that pen strokes,      *)
(* eraser removals, Undo and Redo lead to from a freshly loaded image; with *)
(* an empty undo stack there is no stroke.  Undo of a "stroke" entry drops  *)
(* the last stroke of the list whichever it is, and Redo of an "erase"      *)
(* entry drops a stroke only if one has the point count and the colour of   *)
(* the entry, so with pens of two colours the two numbers part.             *)
C28_StrokesMatchHistory ==
    session # Nil =>
        Len(Deref(session).Strokes) =
            Entries(undoStack, "stroke") - Entries(undoStack, "erase")

(* C29: k strokes erased and then k Undos leave the stroke list the very    *)
(* sequence, in paint order, that it was before the first of the strokes    *)
(* was erased, whichever strokes of the list were erased.                   *)
C29_ErasesUndone ==
    \A k \in 1..HistWin :
        RunUndone(k, "erase") => Strokes = HEntry(2 * k - 1).sess.Strokes

\* EditorView.HasUnsavedChanges
HasUnsavedChanges == session # Nil /\ HasEdits(Sess)

\* the image buffer of the editor is not the one of the image as loaded
BufferCropped ==
    /\ originalBuf # Nil
    /\ \A size \in ImageSizes :
          Deref(originalBuf) # Pixbuf(currentPath, 0, 0, size.W, size.H)

(* C30: in edit mode, after any Apply Crops, Undos and Redos, the session   *)
(* has a crop exactly when the image buffer of the editor is a cropped one,  *)
(* the crop then has the size of that buffer, and HasUnsavedChanges is true  *)
(* whenever the buffer is a cropped one.                                     *)
C30_CropMatchesBuffer ==
    (isEditMode /\ session # Nil) =>
        /\ Sess.Crop # Nil <=> BufferCropped
        /\ Sess.Crop # Nil =>
              /\ Deref(Sess.Crop).Width = Deref(originalBuf).W
              /\ Deref(Sess.Crop).Height = Deref(originalBuf).H
        /\ BufferCropped => HasUnsavedChanges

(* C31: while the pointer button is up there is no stroke in progress and   *)
(* the editor is not drawing, whatever tool changes, Undos and Redos came    *)
(* between a press and its release.                                          *)
C31_NoStrokeWhileButtonUp ==
    ~buttonDown => (currentStroke = Nil /\ ~isDrawing)

(* C32: in edit mode with a session that has edits, no step loads a fresh   *)
(* session into the editor, and a step that leaves edit mode is the exit     *)
(* after a confirmed Discard or a save that wrote the sidecar.               *)
C32_EditsNotLost ==
    [][(isEditMode /\ HasUnsavedChanges) =>
          /\ ~(hist' # hist /\ hist' # <<>> /\ hist'[1].op = "load")
          /\ ~isEditMode' => (ExitEditMode(TRUE) \/ saveEdits(TRUE))]_vars

(* C33: each of the tools None, Crop, Pen and Eraser becomes the current    *)
(* tool of a user who keeps using the toggle buttons of the toolbar and the  *)
(* keys c and p.  No such input passes ToolEraser to setTool.                *)
C33_EveryToolSelected ==
    /\ <>(currentTool = ToolNone)
    /\ <>(currentTool = ToolCrop)
    /\ <>(currentTool = ToolPen)
    /\ <>(currentTool = ToolEraser)

(* C34: an Undo with a non-empty undo stack takes the top entry off the     *)
(* undo stack and puts it on top of the redo stack, a Redo with a non-empty  *)
(* redo stack takes the top entry off the redo stack and puts it on top of   *)
(* the undo stack; the other entries stay where they are, so the two stacks  *)
(* together keep their entries and a Redo after an Undo gives both stacks    *)
(* their content of before.                                                  *)
C34_UndoRedoMoveTop ==
    [][/\ (Undo /\ undoStack # <<>>) =>
             /\ undoStack' = SubSeq(undoStack, 1, Len(undoStack) - 1)
             /\ redoStack' = Append(redoStack, undoStack[Len(undoStack)])
       /\ (Redo /\ redoStack # <<>>) =>
             /\ redoStack' = SubSeq(redoStack, 1, Len(redoStack) - 1)
             /\ undoStack' = Append(undoStack, redoStack[Len(redoStack)])]_vars

\* two actions, both undone, and the first of them redone
C34_Witness ==
    /\ LastOp = "redo"
    /\ Len(undoStack) = 1 /\ Len(redoStack) = 1
    /\ undoStack[1].Type # redoStack[1].Type

(* C35: a save whose write of the sidecar fails opens the error dialog and  *)
(* leaves the window in edit mode with the session and both history stacks   *)
(* as they were; a save that leaves edit mode has written the session to     *)
(* the sidecar.                                                              *)
C35_FailedSaveKeepsEditing ==
    [][/\ (session # Nil /\ saveEdits(FALSE)) =>
             /\ errorDialog' # ""
             /\ isEditMode'
             /\ UNCHANGED <<session, undoStack, redoStack>>
       /\ (session # Nil /\ ~isEditMode' /\ \E ok \in BOOLEAN : saveEdits(ok)) =>
             /\ loaded'.err = ""
             /\ SessionFileName(Deref(session).ImagePath) \in DOMAIN disk'
             /\ disk'[SessionFileName(Deref(session).ImagePath)] =
                   JsonFile(Marshal(Deref(session)))]_vars

\* a session with a stroke and an undone stroke, after a save that failed
C35_Witness ==
    /\ isEditMode
    /\ errorDialog = "Failed to save edits"
    /\ loaded.op = "save" /\ loaded.err = "write"
    /\ HasUnsavedChanges
    /\ undoStack # <<>> /\ redoStack # <<>>

(* C36: in view mode, while a first g is pending, the press of any key      *)
(* other than g, after which the application still runs, ends the pending    *)
(* sequence, whether or not the key has a binding, so that only g pressed    *)
(* straight after g calls FirstImage.                                        *)
C36_OtherKeyResetsG ==
    [][(/\ ~isEditMode
        /\ gSequence
        /\ ~quit'
        /\ \E keyval \in Keys \ {"g"}, shift \in BOOLEAN, ctrl \in BOOLEAN :
              KeyPressed(keyval, shift, ctrl))
          => ~gSequence']_vars

\* twice the numerator sn of the scale sn/sd = min(areaW/imgW, areaH/imgH)
\* of an image in the drawing area: the denominator of image coordinates
ImageDen(areaW, areaH, imgW, imgH) ==
    2 * (IF areaW * imgH <= areaH * imgW THEN areaW ELSE areaH)

\* the image coordinate (screen - offset) / scale of a screen coordinate
\* along an axis, as the numerator over ImageDen: the image is centred, so
\* offset = (area - img * scale) / 2
ImageNum(screen, area, img, areaW, areaH, imgW, imgH) ==
    LET fitW == areaW * imgH <= areaH * imgW
        sn == IF fitW THEN areaW ELSE areaH
        sd == IF fitW THEN imgW ELSE imgH
    IN  2 * sd * screen - area * sd + img * sn

(* C37: the region that Apply Crop stores lies in the selection mapped to   *)
(* image space: unless the width is the minimum of 1 pixel, x + width is at  *)
(* most the image coordinate of the right edge of the selection, and the     *)
(* same holds for y + height and the bottom edge.                            *)
C37_CropWithinSelection ==
    [][(applyCropToImage /\ Len(undoStack') > Len(undoStack)) =>
          LET buf == Deref(originalBuf)
              den == ImageDen(drawArea.W, drawArea.H, buf.W, buf.H)
              right == ImageNum(Max(cropStart.X, cropEnd.X), drawArea.W,
                                buf.W, drawArea.W, drawArea.H, buf.W, buf.H)
              bottom == ImageNum(Max(cropStart.Y, cropEnd.Y), drawArea.H,
                                 buf.H, drawArea.W, drawArea.H, buf.W, buf.H)
              crop == Deref(Deref(session').Crop)
          IN  /\ crop.Width > 1 => (crop.X + crop.Width) * den <= right
              /\ crop.Height > 1 => (crop.Y + crop.Height) * den <= bottom]_vars

(* C38: OpenPath of a file with a supported extension makes that file the   *)
(* current image of the list.                                                *)
C38_OpenPathShowsFile ==
    [][\A path \in DOMAIN disk :
          (/\ ToLower(Ext(Base(path))) \in SupportedExtensions
           /\ OpenPath(path))
             => /\ currentIndex' < Len(images')
                /\ images'[currentIndex' + 1] = path]_vars

\* after the step the index is one of the list, when the list has an image
IndexInList ==
    images' # <<>> => (0 <= currentIndex' /\ currentIndex' < Len(images'))

\* NextImage at the last image and PrevImage at the first one keep the index
NoWrapAround ==
    /\ (images # <<>> /\ currentIndex = Len(images) - 1 /\ NextImage)
          => currentIndex' = currentIndex
    /\ (images # <<>> /\ currentIndex = 0 /\ PrevImage)
          => currentIndex' = currentIndex

(* C39, as stated: the index is one of the list, there is no wrap-around,   *)
(* and every confirmed deletion takes exactly one entry off the list.  A     *)
(* confirmed deletion whose move to the trash fails takes none.              *)
C39_DeletionRemovesOne ==
    [][/\ IndexInList
       /\ NoWrapAround
       /\ \A trashed \in BOOLEAN :
             (images # <<>> /\ DeleteCurrent(TRUE, trashed))
                => Len(images') = Len(images) - 1]_vars

(* C39: whenever the list has an image the index is one of the list, after  *)
(* NextImage, PrevImage, FirstImage, LastImage, deletions and OpenPath;      *)
(* NextImage at the last image and PrevImage at the first one keep the       *)
(* index; a confirmed deletion takes the current entry, and no other, off    *)
(* the list when the file went to the trash, and leaves the list as it is    *)
(* and shows the error when it did not.                                      *)
C39_IndexWithinList ==
    [][/\ IndexInList
       /\ NoWrapAround
       /\ \A trashed \in BOOLEAN :
             (images # <<>> /\ DeleteCurrent(TRUE, trashed)) =>
                IF MoveToTrash(disk, images[currentIndex + 1], trashed).err = ""
                THEN images' = RemoveAt(images, currentIndex + 1)
                ELSE images' = images /\ errorDialog' = "Failed to delete"]_vars

\* the second of two images was the current one and has been deleted
C39_Witness ==
    /\ Len(images) = 1
    /\ currentIndex = 0
    /\ Len(images[1]) > 0
    /\ DOMAIN disk = DOMAIN Directory \ {<<"/", "a", "/", "b", ".", "j", "p", "g">>}
    /\ viewer.currentPath = images[1]

=============================================================================
